---- MODULE Spec2Model ----
(***************************************************************************)
(* A model of the akari template engine: the directive evaluator           *)
(* (akari/src/compile.rs) and the template resolver                        *)
(* (akari/src/template_manager.rs).                                        *)
(*                                                                         *)
(* Numerical values are f64 in the program; the model keeps the integers   *)
(* among them.  The output string is kept as the sequence of the pieces    *)
(* pushed onto it (push_str), Flatten gives the string itself.  Token      *)
(* positions are 0-based as in the program: the token at position p of a   *)
(* vector t is t[p + 1].                                                   *)
(***************************************************************************)
EXTENDS Integers, Sequences, FiniteSets, TLC

VARIABLES
    scenario,   \* the call being made: entry point, template name or tokens, bindings
    manager,    \* the TemplateManager: template files, recursion limit, cache
    phase,      \* "start", "compile", "run", "done": where the call stands
    stack,      \* the TemplateCompiler instances alive, innermost last
    result      \* what the entry point returned (kind "none" until it returns)

vars == <<scenario, manager, phase, stack, result>>

(***************************************************************************)
(* Value (object/value.rs)                                                 *)
(***************************************************************************)
ObjNone == [t |-> "None"]
ObjBoolean(b) == [t |-> "Boolean", b |-> b]
ObjNumerical(n) == [t |-> "Numerical", n |-> n]
ObjStr(s) == [t |-> "Str", s |-> s]
ObjList(l) == [t |-> "List", l |-> l]
ObjDictionary(d) == [t |-> "Dictionary", d |-> d]

type_of(v) ==
    CASE v.t = "Numerical" -> "num"
      [] v.t = "Boolean" -> "bool"
      [] v.t = "Str" -> "str"
      [] v.t = "List" -> "vec"
      [] v.t = "Dictionary" -> "dict"
      [] OTHER -> "none"

Digit(d) == SubSeq(<<"0", "1", "2", "3", "4", "5", "6", "7", "8", "9">>, d + 1, d + 1)[1]

RECURSIVE NatToString(_)
NatToString(n) == IF n < 10 THEN Digit(n) ELSE NatToString(n \div 10) \o Digit(n % 10)

\* f64::to_string of an integral value: no decimal point, a leading minus sign.
NumToString(n) == IF n < 0 THEN "-" \o NatToString(0 - n) ELSE NatToString(n)

interal_value_as_string(v) ==
    CASE v.t = "Str" -> v.s
      [] v.t = "Numerical" -> NumToString(v.n)
      [] v.t = "Boolean" -> (IF v.b THEN "true" ELSE "false")
      [] OTHER -> ""

\* `n as usize`: a negative number saturates to 0.
AsUsize(n) == IF n < 0 THEN 0 ELSE n

(***************************************************************************)
(* Token (template/parse.rs)                                               *)
(***************************************************************************)
Kw(k) == [k |-> k]
Identifier(name) == [k |-> "Identifier", name |-> name]
Object(obj) == [k |-> "Object", obj |-> obj]
HtmlContent(text) == [k |-> "HtmlContent", text |-> text]
EndOfStatement == Kw("EndOfStatement")

\* tokens.get(i): the token at 0-based position i, or nothing past the end.
TokAt(tokens, i) == IF i >= 0 /\ i < Len(tokens) THEN tokens[i + 1] ELSE Kw("<none>")

IsKw(tokens, i, k) == TokAt(tokens, i).k = k

\* tokens[a..b], for 0 <= a <= b <= len (the program panics otherwise).
Slice(tokens, a, b) == SubSeq(tokens, a + 1, b)

(***************************************************************************)
(* TemplateCompiler (compile.rs).  A compiler value c carries the struct's *)
(* fields and two history fields: sc, the positions at which a right       *)
(* operand was left unparsed by a short-circuit return, and touched.       *)
(***************************************************************************)
StrInsert(m, key, v) == [x \in (DOMAIN m) \cup {key} |-> IF x = key THEN v ELSE m[x]]
StrRemove(m, key) == [x \in (DOMAIN m) \ {key} |-> m[x]]
EmptyMap == [x \in {} |-> ObjNone]

\* output.push_str(text); pushing the empty string changes nothing.
Push(c, text) == IF text = "" THEN c ELSE [c EXCEPT !.output = Append(@, text)]
SetPos(c, p) == [c EXCEPT !.pos = p]

\* The writes to the binding table.  touched is a history field: for every
\* name written since the compiler was created, the last write made to it.
WroteSet(v) == [op |-> "set", v |-> v]
WroteDel == [op |-> "del", v |-> ObjNone]
DataInsert(c, key, v) ==
    [c EXCEPT !.data = StrInsert(@, key, v), !.touched = StrInsert(@, key, WroteSet(v))]
DataRemove(c, key) ==
    [c EXCEPT !.data = StrRemove(@, key), !.touched = StrInsert(@, key, WroteDel)]

Ok(c, v) == [ok |-> TRUE, some |-> TRUE, c |-> c, v |-> v, err |-> ""]
OkNothing(c) == [ok |-> TRUE, some |-> FALSE, c |-> c, v |-> ObjNone, err |-> ""]
Err(c, e) == [ok |-> FALSE, some |-> FALSE, c |-> c, v |-> ObjNone, err |-> e]

is_truthy(v) ==
    CASE v.t = "Boolean" -> v.b
      [] v.t = "Numerical" -> v.n # 0
      [] v.t = "Str" -> v.s # ""
      [] v.t = "List" -> v.l # <<>>
      [] v.t = "Dictionary" -> DOMAIN v.d # {}
      [] OTHER -> FALSE

get_operator_precedence(c) ==
    LET k == TokAt(c.tokens, c.pos).k IN
    CASE c.pos >= Len(c.tokens) -> 0
      [] k = "LogicalOr" -> 10
      [] k = "LogicalAnd" -> 20
      [] k \in {"EqualsEquals", "NotEquals"} -> 30
      [] k \in {"LessThan", "LessThanEquals", "GreaterThan", "GreaterThanEquals"} -> 40
      [] k \in {"Plus", "Minus"} -> 50
      [] k \in {"Multiply", "Divide", "Modulus"} -> 60
      [] k = "Exponent" -> 70
      [] k = "Dot" -> 90
      [] k = "LeftSquareBracket" -> 90
      [] OTHER -> 0

RECURSIVE Pow(_, _)
Pow(a, b) == IF b <= 0 THEN 1 ELSE a * Pow(a, b - 1)

Abs(a) == IF a < 0 THEN 0 - a ELSE a

\* f64 `%`: the remainder has the sign of the dividend.
Rem(a, b) == IF a >= 0 THEN a % Abs(b) ELSE 0 - ((0 - a) % Abs(b))

\* f64 `/` on the integers the model keeps: the quotient, truncated.
Quot(a, b) == IF (a >= 0) = (b >= 0) THEN Abs(a) \div Abs(b) ELSE 0 - (Abs(a) \div Abs(b))

\* The closure handed to apply_binary_op, named by its operator token.
ArithOp(k, a, b) ==
    CASE k = "Plus" -> a + b
      [] k = "Minus" -> a - b
      [] k = "Multiply" -> a * b
      [] k = "Divide" -> Quot(a, b)
      [] k = "Modulus" -> Rem(a, b)
      [] OTHER -> Pow(a, b)

apply_binary_op(c, left, right, k) ==
    LET isAdd == (k = "Plus") IN  \* op(1.0, 1.0) == 2.0
    CASE left.t = "Numerical" /\ right.t = "Numerical" ->
            Ok(c, ObjNumerical(ArithOp(k, left.n, right.n)))
      [] left.t = "Str" /\ right.t = "Str" ->
            IF isAdd THEN Ok(c, ObjStr(left.s \o right.s))
            ELSE Err(c, "Only addition is supported for strings")
      [] left.t = "Str" /\ right.t = "Numerical" ->
            IF isAdd THEN Ok(c, ObjStr(left.s \o NumToString(right.n)))
            ELSE Err(c, "Only addition is supported for strings")
      [] left.t = "Numerical" /\ right.t = "Str" ->
            IF isAdd THEN Ok(c, ObjStr(NumToString(left.n) \o right.s))
            ELSE Err(c, "Only addition is supported for strings")
      [] left.t = "List" /\ right.t = "List" ->
            IF isAdd THEN Ok(c, ObjList(left.l \o right.l))
            ELSE Err(c, "Only addition is supported for lists")
      [] OTHER -> Err(c, "Type mismatch for binary operation")

\* The strings the scenarios compare, in lexicographic (byte) order.
StrOrder == <<"", "a", "ab", "b", "hi", "x", "y">>
StrRank(s) == CHOOSE i \in 1..Len(StrOrder) : StrOrder[i] = s
StrLess(l, r) == StrRank(l) < StrRank(r)

NumCompare(k, a, b) ==
    CASE k = "LessThan" -> a < b
      [] k = "LessThanEquals" -> a <= b
      [] k = "GreaterThan" -> a > b
      [] OTHER -> a >= b

apply_comparison_op(c, left, right, k) ==
    CASE left.t = "Numerical" /\ right.t = "Numerical" ->
            Ok(c, ObjBoolean(NumCompare(k, left.n, right.n)))
      [] left.t = "Str" /\ right.t = "Str" ->
            IF NumCompare(k, 1, 2)  \* op(1.0, 2.0): the operator is < or <=
            THEN Ok(c, ObjBoolean(StrLess(left.s, right.s)))
            ELSE Ok(c, ObjBoolean(StrLess(right.s, left.s)))
      [] OTHER -> Err(c, "Cannot compare different types")

(***************************************************************************)
(* Expression evaluation: precedence climbing over the token vector.       *)
(* Every operator takes the compiler value and returns it with the value   *)
(* computed, or with the error raised.                                     *)
(***************************************************************************)
RECURSIVE parse_expression(_, _)
RECURSIVE expression_loop(_, _, _)
RECURSIVE parse_primary(_)
RECURSIVE parse_binary_op(_, _, _)
RECURSIVE handle_variable_access(_, _, _)
RECURSIVE index_chain(_, _, _, _)
RECURSIVE handle_property_access(_, _)
RECURSIVE handle_indexing(_, _)

evaluate_expression(c) == parse_expression(c, 0)

\* Outcome of one part of the access chain of handle_variable_access:
\* "go" (the chain goes on), "ret" (the function returns Some(None)), "err".
ChainGo(c, v, acp) == [st |-> "go", c |-> c, v |-> v, acp |-> acp, err |-> ""]
ChainMiss(c, acp, output_to_stream, text) ==
    IF output_to_stream
    THEN [st |-> "ret", c |-> Push(c, "<!-- " \o text \o " -->"), v |-> ObjNone,
          acp |-> acp, err |-> ""]
    ELSE [st |-> "err", c |-> c, v |-> ObjNone, acp |-> acp, err |-> text]
ChainErr(c, acp, text) == [st |-> "err", c |-> c, v |-> ObjNone, acp |-> acp, err |-> text]

\* The `while matches!(.., LeftSquareBracket)` loop of handle_variable_access.
index_chain(c, value, acp, output_to_stream) ==
    IF ~IsKw(c.tokens, acp, "LeftSquareBracket") THEN ChainGo(c, value, acp)
    ELSE
      LET with_index(ix) ==
        IF ~ix.ok THEN ChainErr(ix.c, acp, ix.err)
        ELSE
          LET c1 == ix.c
              acp2 == c1.pos + 1
          IN
          IF ~IsKw(c1.tokens, c1.pos, "RightSquareBracket")
          THEN ChainErr(c1, acp, "Expected closing bracket after index")
          ELSE
            CASE value.t = "List" ->
                   IF ix.v.t = "Numerical"
                   THEN LET idx == AsUsize(ix.v.n) IN
                        IF idx < Len(value.l)
                        THEN index_chain(c1, value.l[idx + 1], acp2, output_to_stream)
                        ELSE ChainMiss(c1, acp2, output_to_stream,
                               "Index " \o NumToString(idx) \o " out of bounds for list")
                   ELSE ChainMiss(c1, acp2, output_to_stream, "List index must be a number")
              [] value.t = "Dictionary" ->
                   LET key == interal_value_as_string(ix.v) IN
                   IF key \in DOMAIN value.d
                   THEN index_chain(c1, value.d[key], acp2, output_to_stream)
                   ELSE ChainMiss(c1, acp2, output_to_stream,
                          "Key '" \o key \o "' not found in dictionary")
              [] OTHER ->
                   ChainMiss(c1, acp2, output_to_stream,
                     "Cannot index into a " \o type_of(value) \o " value")
      IN with_index(evaluate_expression(SetPos(c, acp + 1)))

\* The dot part of handle_variable_access: one optional `.property`.
dot_access(c, value, acp, output_to_stream) ==
    IF ~IsKw(c.tokens, acp, "Dot") THEN ChainGo(c, value, acp)
    ELSE IF ~IsKw(c.tokens, acp + 1, "Identifier") THEN ChainGo(c, value, acp + 1)
    ELSE
      LET prop_name == TokAt(c.tokens, acp + 1).name
          acp2 == acp + 2
      IN
      CASE value.t = "List" ->
             IF prop_name = "len" THEN ChainGo(c, ObjNumerical(Len(value.l)), acp2)
             ELSE ChainMiss(c, acp2, output_to_stream,
                    "No property/method '" \o prop_name \o "' on list")
        [] value.t = "Dictionary" ->
             IF prop_name = "len" THEN ChainGo(c, ObjNumerical(Cardinality(DOMAIN value.d)), acp2)
             ELSE IF prop_name \in DOMAIN value.d THEN ChainGo(c, value.d[prop_name], acp2)
             ELSE ChainMiss(c, acp2, output_to_stream,
                    "Key '" \o prop_name \o "' not found in dictionary")
        [] value.t = "Str" ->
             IF prop_name = "len" THEN ChainGo(c, ObjNumerical(Len(value.s)), acp2)
             ELSE ChainMiss(c, acp2, output_to_stream,
                    "No property/method '" \o prop_name \o "' on string")
        [] OTHER ->
             ChainMiss(c, acp2, output_to_stream,
               "Type '" \o type_of(value) \o "' does not support properties/methods")

\* Some(value) for a read, None (some = FALSE) for an assignment.
handle_variable_access(c, var_name, output_to_stream) ==
    IF var_name \notin DOMAIN c.data
    THEN Ok(IF output_to_stream
            THEN Push(c, "<!-- There should be a value '" \o var_name \o "' but not found -->")
            ELSE c,
            ObjNone)
    ELSE
      LET assigned(nv, access_chain_pos) ==
            IF ~nv.ok THEN nv
            ELSE IF \/ nv.c.pos = Len(nv.c.tokens)
                    \/ TokAt(nv.c.tokens, access_chain_pos - 1).k
                          \notin {"RightSquareBracket", "Dot"}
            THEN OkNothing(DataInsert(nv.c, var_name, nv.v))
            ELSE Err(nv.c, "Assignment to indexed/property values not fully implemented")
          with_dot(dt) ==
            IF dt.st = "err" THEN Err(dt.c, dt.err)
            ELSE IF dt.st = "ret" THEN Ok(dt.c, ObjNone)
            ELSE IF IsKw(dt.c.tokens, dt.acp, "Assignment")
            THEN assigned(evaluate_expression(SetPos(dt.c, dt.acp + 1)), dt.acp)
            ELSE Ok(SetPos(dt.c, dt.acp), dt.v)
          with_chain(ch) ==
            IF ch.st = "err" THEN Err(ch.c, ch.err)
            ELSE IF ch.st = "ret" THEN Ok(ch.c, ObjNone)
            ELSE with_dot(dot_access(ch.c, ch.v, ch.acp, output_to_stream))
      IN with_chain(index_chain(c, c.data[var_name], c.pos, output_to_stream))

handle_property_access(c, obj) ==
    LET c1 == SetPos(c, c.pos + 1) IN
    IF ~IsKw(c1.tokens, c1.pos, "Identifier") THEN Err(c1, "Expected identifier after dot")
    ELSE
      LET prop_name == TokAt(c1.tokens, c1.pos).name
          c2 == SetPos(c1, c1.pos + 1)
      IN
      CASE obj.t = "List" ->
             IF prop_name = "len" THEN Ok(c2, ObjNumerical(Len(obj.l)))
             ELSE Err(c2, "No property/method '" \o prop_name \o "' on list")
        [] obj.t = "Dictionary" ->
             IF prop_name = "len" THEN Ok(c2, ObjNumerical(Cardinality(DOMAIN obj.d)))
             ELSE IF prop_name \in DOMAIN obj.d THEN Ok(c2, obj.d[prop_name])
             ELSE Err(c2, "Key '" \o prop_name \o "' not found in dictionary")
        [] obj.t = "Str" ->
             IF prop_name = "len" THEN Ok(c2, ObjNumerical(Len(obj.s)))
             ELSE Err(c2, "No property/method '" \o prop_name \o "' on string")
        [] OTHER ->
             Err(c2, "Type '" \o type_of(obj) \o "' does not support properties/methods")

handle_indexing(c, obj) ==
    LET with_index(ix) ==
      IF ~ix.ok THEN ix
      ELSE IF ~IsKw(ix.c.tokens, ix.c.pos, "RightSquareBracket")
      THEN Err(ix.c, "Expected closing bracket after index")
      ELSE
        LET c2 == SetPos(ix.c, ix.c.pos + 1) IN
        CASE obj.t = "List" ->
               IF ix.v.t = "Numerical"
               THEN LET idx == AsUsize(ix.v.n) IN
                    IF idx < Len(obj.l) THEN Ok(c2, obj.l[idx + 1])
                    ELSE Err(c2, "Index " \o NumToString(idx) \o " out of bounds for list")
               ELSE Err(c2, "List index must be a number")
          [] obj.t = "Dictionary" ->
               LET key == interal_value_as_string(ix.v) IN
               IF key \in DOMAIN obj.d THEN Ok(c2, obj.d[key])
               ELSE Err(c2, "Key '" \o key \o "' not found in dictionary")
          [] OTHER -> Err(c2, "Cannot index into a " \o type_of(obj) \o " value")
    IN with_index(evaluate_expression(SetPos(c, c.pos + 1)))

parse_primary(c) ==
    IF c.pos >= Len(c.tokens)
    THEN Err(c, "Unexpected end of input while parsing expression")
    ELSE
      LET tk == TokAt(c.tokens, c.pos)
          c1 == SetPos(c, c.pos + 1)
          variable(r) == IF ~r.ok THEN r ELSE Ok(r.c, IF r.some THEN r.v ELSE ObjNone)
          parenthesised(e) ==
             IF ~e.ok THEN e
             ELSE IF IsKw(e.c.tokens, e.c.pos, "RightParen")
             THEN LET c2 == SetPos(e.c, e.c.pos + 1) IN
                  IF IsKw(c2.tokens, c2.pos, "Dot") THEN handle_property_access(c2, e.v)
                  ELSE IF IsKw(c2.tokens, c2.pos, "LeftSquareBracket")
                  THEN handle_indexing(c2, e.v)
                  ELSE Ok(c2, e.v)
             ELSE Err(e.c, "Expected closing parenthesis")
          negated(r) ==
             IF ~r.ok THEN r
             ELSE IF r.v.t = "Numerical" THEN Ok(r.c, ObjNumerical(0 - r.v.n))
             ELSE Err(r.c, "Unary minus can only be applied to numbers")
          inverted(r) ==
             IF ~r.ok THEN r
             ELSE IF r.v.t = "Boolean" THEN Ok(r.c, ObjBoolean(~r.v.b))
             ELSE Ok(r.c, ObjBoolean(FALSE))
      IN
      CASE tk.k = "Object" -> Ok(c1, tk.obj)
        [] tk.k = "Identifier" -> variable(handle_variable_access(c1, tk.name, FALSE))
        [] tk.k = "LeftParen" -> parenthesised(evaluate_expression(c1))
        [] tk.k = "Minus" -> negated(parse_expression(c1, 100))
        [] tk.k = "LogicalNot" -> inverted(parse_expression(c1, 100))
        [] OTHER -> Err(c, "Unexpected token in expression: " \o tk.k)

\* A short-circuit return: the operator is consumed, the right operand is not.
ShortCircuit(c1, b) == Ok([c1 EXCEPT !.sc = @ \cup {c1.pos}], ObjBoolean(b))

parse_binary_op(c, left, precedence) ==
    LET k == TokAt(c.tokens, c.pos).k
        c1 == SetPos(c, c.pos + 1)
        \* r is `self.parse_expression(precedence)?`, the right operand
        with_right(r) ==
          IF ~r.ok THEN r
          ELSE
            CASE k \in {"Plus", "Minus", "Multiply", "Exponent"} ->
                   apply_binary_op(r.c, left, r.v, k)
              [] k = "Divide" ->
                   IF r.v.t = "Numerical" /\ r.v.n = 0 THEN Err(r.c, "Division by zero")
                   ELSE apply_binary_op(r.c, left, r.v, k)
              [] k = "Modulus" ->
                   IF r.v.t = "Numerical" /\ r.v.n = 0 THEN Err(r.c, "Modulo by zero")
                   ELSE apply_binary_op(r.c, left, r.v, k)
              [] k = "EqualsEquals" -> Ok(r.c, ObjBoolean(left = r.v))
              [] k = "NotEquals" -> Ok(r.c, ObjBoolean(left # r.v))
              [] k = "LogicalAnd" -> Ok(r.c, ObjBoolean(is_truthy(left) /\ is_truthy(r.v)))
              [] k = "LogicalOr" -> Ok(r.c, ObjBoolean(is_truthy(left) \/ is_truthy(r.v)))
              [] OTHER -> apply_comparison_op(r.c, left, r.v, k)
    IN
    CASE k = "LogicalAnd" /\ ~is_truthy(left) -> ShortCircuit(c1, FALSE)
      [] k = "LogicalOr" /\ is_truthy(left) -> ShortCircuit(c1, TRUE)
      [] k \in {"Plus", "Minus", "Multiply", "Exponent", "Divide", "Modulus", "EqualsEquals",
                "NotEquals", "LessThan", "LessThanEquals", "GreaterThan", "GreaterThanEquals",
                "LogicalAnd", "LogicalOr"} ->
           with_right(parse_expression(c1, precedence))
      [] OTHER -> Err(c, "Unknown operator: " \o k)

\* The `while self.pos < self.tokens.len()` loop of parse_expression.
expression_loop(c, left, precedence) ==
    IF c.pos < Len(c.tokens) /\ get_operator_precedence(c) > precedence
    THEN LET again(b) == IF ~b.ok THEN b ELSE expression_loop(b.c, b.v, precedence)
         IN again(parse_binary_op(c, left, get_operator_precedence(c)))
    ELSE Ok(c, left)

parse_expression(c, precedence) ==
    LET finish(l) ==
          IF ~l.ok THEN l
          ELSE IF IsKw(l.c.tokens, l.c.pos, "EndOfStatement")
          THEN Ok(SetPos(l.c, l.c.pos + 1), l.v)
          ELSE l
        with_primary(p) ==
          IF ~p.ok THEN p ELSE finish(expression_loop(p.c, p.v, precedence))
    IN with_primary(parse_primary(c))

\* Never an error: a failed condition is false, with a diagnostic in the output.
evaluate_condition(c) ==
    LET decide(e) ==
          IF e.ok THEN [c |-> e.c, b |-> is_truthy(e.v)]
          ELSE [c |-> Push(e.c, "<!-- Error in condition: " \o e.err \o " -->"), b |-> FALSE]
    IN decide(evaluate_expression(c))

(***************************************************************************)
(* Statements (compile.rs).  A handler returns what generate_output does   *)
(* next: go on in the same compiler ("next"), run a nested compiler        *)
(* ("push", with the handler's own state h to resume it), return an error  *)
(* ("err") or panic.                                                       *)
(***************************************************************************)
NoBlocks == [x \in {} |-> <<>>]

\* TemplateCompiler::new
NewCompiler(tokens, data) ==
    [tokens |-> tokens, data |-> data, pos |-> 0, blocks |-> NoBlocks, output |-> <<>>,
     export_mode |-> FALSE, template_name |-> <<>>, sc |-> {}, touched |-> EmptyMap]

\* note tells how a while loop ended ("cond", "limit", "error") and after how
\* many completed runs of its body; it is empty for every other statement.
NoNote == [how |-> "", runs |-> 0]
Next_(c) == [kind |-> "next", c |-> c, note |-> NoNote]
Raise(c, e) == [kind |-> "err", c |-> c, err |-> e]
Panic(c) == [kind |-> "panic", c |-> c]
Nested(c, h, child) == [kind |-> "push", c |-> c, h |-> h, child |-> child]

HNone == [kind |-> "none"]

\* `while pos < len && depth > 0 { open => depth += 1, close => depth -= 1; pos += 1 }`
RECURSIVE SkipBalanced(_, _, _, _, _)
SkipBalanced(tokens, pos, depth, open, close) ==
    IF pos < Len(tokens) /\ depth > 0
    THEN LET k == TokAt(tokens, pos).k
             d == IF k = open THEN depth + 1 ELSE IF k = close THEN depth - 1 ELSE depth
         IN SkipBalanced(tokens, pos + 1, d, open, close)
    ELSE [pos |-> pos, depth |-> depth]

SkipEos(tokens, pos) == IF IsKw(tokens, pos, "EndOfStatement") THEN pos + 1 ELSE pos

\* First pass of compile: the block map, the parent's name, the export flag.
RECURSIVE collect_blocks_and_metadata(_)
collect_blocks_and_metadata(c) ==
    IF c.pos >= Len(c.tokens) THEN Next_(c)
    ELSE
      LET k == TokAt(c.tokens, c.pos).k
          p1 == c.pos + 1
      IN
      CASE k = "TemplateKeyword" ->
             IF TokAt(c.tokens, p1).k = "Object" /\ TokAt(c.tokens, p1).obj.t = "Str"
             THEN collect_blocks_and_metadata(
                    [c EXCEPT !.template_name = TokAt(c.tokens, p1).obj.s,
                              !.pos = SkipEos(c.tokens, p1 + 1)])
             ELSE Raise(SetPos(c, p1), "Expected string after template keyword")
        [] k = "BlockKeyword" ->
             IF IsKw(c.tokens, p1, "Identifier")
             THEN LET name == TokAt(c.tokens, p1).name
                      start == SkipEos(c.tokens, p1 + 1)
                      sk == SkipBalanced(c.tokens, start, 1, "BlockKeyword", "EndBlockKeyword")
                  IN
                  IF sk.depth > 0 THEN Raise(SetPos(c, sk.pos), "Unterminated block: " \o name)
                  ELSE collect_blocks_and_metadata(
                         [c EXCEPT !.blocks = StrInsert(@, name, Slice(c.tokens, start, sk.pos - 1)),
                                   !.pos = SkipEos(c.tokens, sk.pos)])
             ELSE Raise(SetPos(c, p1), "Expected identifier after block keyword")
        [] k = "ExportKeyword" ->
             collect_blocks_and_metadata(
               [c EXCEPT !.export_mode = TRUE, !.pos = SkipEos(c.tokens, p1)])
        [] OTHER -> collect_blocks_and_metadata(SetPos(c, SkipEos(c.tokens, p1)))

handle_assignment(c) ==
    LET p1 == c.pos + 1 IN
    IF IsKw(c.tokens, p1, "Identifier")
    THEN IF IsKw(c.tokens, p1 + 1, "Assignment")
         THEN LET bind(e) ==
                    IF ~e.ok THEN Raise(e.c, e.err)
                    ELSE Next_(DataInsert(e.c, TokAt(c.tokens, p1).name, e.v))
              IN bind(evaluate_expression(SetPos(c, p1 + 2)))
         ELSE Raise(SetPos(c, p1 + 1), "Expected assignment operator after variable name")
    ELSE Raise(SetPos(c, p1), "Expected identifier after let keyword")

\* Vec::remove(idx)
RemoveAt(l, idx) == SubSeq(l, 1, idx) \o SubSeq(l, idx + 2, Len(l))

handle_deletion(c) ==
    LET p1 == c.pos + 1 IN
    IF ~IsKw(c.tokens, p1, "Identifier")
    THEN Raise(SetPos(c, p1), "Expected identifier after del keyword")
    ELSE
      LET var_name == TokAt(c.tokens, p1).name
          p2 == p1 + 1
      IN
      IF p2 >= Len(c.tokens) \/ ~IsKw(c.tokens, p2, "LeftSquareBracket")
      THEN Next_(DataRemove(SetPos(c, p2), var_name))
      ELSE
        LET with_index(ix) ==
          IF ~ix.ok THEN Raise(ix.c, ix.err)
          ELSE IF ~IsKw(ix.c.tokens, ix.c.pos, "RightSquareBracket")
          THEN Raise(ix.c, "Expected closing bracket after index")
          ELSE
            LET c3 == SetPos(ix.c, ix.c.pos + 1) IN
            IF var_name \notin DOMAIN c3.data
            THEN Next_(Push(c3, "<!-- Variable '" \o var_name \o "' not found -->"))
            ELSE
              LET collection == c3.data[var_name] IN
              CASE collection.t = "List" ->
                     IF ix.v.t = "Numerical"
                     THEN LET idx == AsUsize(ix.v.n) IN
                          IF idx < Len(collection.l)
                          THEN Next_(DataInsert(c3, var_name, ObjList(RemoveAt(collection.l, idx))))
                          ELSE Next_(Push(c3, "<!-- Index " \o NumToString(idx)
                                             \o " out of bounds for list " \o var_name \o " -->"))
                     ELSE Next_(Push(c3, "<!-- List index must be a number -->"))
                [] collection.t = "Dictionary" ->
                     LET key == interal_value_as_string(ix.v) IN
                     IF key \in DOMAIN collection.d
                     THEN Next_(DataInsert(c3, var_name, ObjDictionary(StrRemove(collection.d, key))))
                     ELSE Next_(c3)
                [] OTHER ->
                     Next_(Push(c3, "<!-- Cannot delete from a " \o type_of(collection)
                                    \o " value -->"))
        IN with_index(evaluate_expression(SetPos(c, p2 + 1)))

\* An `if` that skips to the first endif, nested or not: C24 does not hold of it.
handle_if_unnested(c) ==
    LET branch(cd) ==
          IF cd.b THEN Next_(cd.c)
          ELSE Next_(SetPos(cd.c,
                       SkipBalanced(cd.c.tokens, cd.c.pos, 1, "<none>", "EndIfKeyword").pos))
    IN branch(evaluate_condition(SetPos(c, c.pos + 1)))

handle_if_statement(c) ==
    LET branch(cd) ==
          IF cd.b THEN Next_(cd.c)
          ELSE Next_(SetPos(cd.c,
                       SkipBalanced(cd.c.tokens, cd.c.pos, 1, "IfKeyword", "EndIfKeyword").pos))
    IN branch(evaluate_condition(SetPos(c, c.pos + 1)))

\* A loop that gives up one iteration early: C2 does not hold of it.
IterationsOffByOne == 10000 - 1

MAX_ITERATIONS == 10000

\* self.data.clone(): the table a nested compiler starts from.
Snapshot(data) == data

\* A merge that drops what the nested compiler wrote: C5 does not hold of it.
KeepParentData(parentData, nestedData) == parentData

\* `self.data = body_compiler.data`: the table of the enclosing compiler
\* after the nested one returned Ok.
MergedData(parentData, nestedData) == nestedData

OverlayTouched(t1, t2) ==
    [k \in (DOMAIN t1) \cup (DOMAIN t2) |-> IF k \in DOMAIN t2 THEN t2[k] ELSE t1[k]]

\* output.push_str(&nested_output) and the merge of the bindings.
Merge(c, nested) ==
    [c EXCEPT !.output = @ \o nested.output,
              !.data = MergedData(@, nested.data),
              !.touched = OverlayTouched(@, nested.touched)]

handle_placeholder(c) ==
    LET p1 == c.pos + 1 IN
    IF IsKw(c.tokens, p1, "Identifier")
    THEN LET block_name == TokAt(c.tokens, p1).name IN
         IF block_name \in DOMAIN c.blocks
         THEN Nested(SetPos(c, p1), [kind |-> "placeholder"],
                     NewCompiler(c.blocks[block_name], Snapshot(c.data)))
         ELSE Next_(SetPos(Push(c, "<!-- Block '" \o block_name \o "' not defined -->"),
                           p1 + 1))
    ELSE Raise(SetPos(c, p1), "Expected identifier after placeholder keyword")

placeholder_return(c, nested) == Next_(SetPos(Merge(c, nested), c.pos + 1))

\* The BlockKeyword arm of generate_output: the header is skipped, the
\* search for the matching endblock is commented out in the program.
handle_block_keyword(c) ==
    LET p1 == c.pos + 1
        p2 == IF IsKw(c.tokens, p1, "Identifier") THEN p1 + 1 ELSE p1
    IN Next_(SetPos(c, SkipEos(c.tokens, p2)))

\* handle_for_loop up to the extraction of the loop body.
for_prelude(c) ==
    LET p1 == c.pos + 1 IN
    IF ~IsKw(c.tokens, p1, "Identifier")
    THEN [kind |-> "err", c |-> SetPos(c, p1), err |-> "Expected identifier after for keyword"]
    ELSE
      LET p2 == IF IsKw(c.tokens, p1 + 1, "InKeyword") THEN p1 + 2 ELSE p1 + 1
          body(e, loop_start, sk) ==
            LET loop_end == sk.pos - 1 IN
            IF loop_start > loop_end THEN [kind |-> "panic", c |-> e.c]
            ELSE [kind |-> "ok", c |-> SetPos(e.c, sk.pos),
                  loop_var |-> TokAt(c.tokens, p1).name,
                  collection |-> e.v, loop_body |-> Slice(c.tokens, loop_start, loop_end)]
          with_collection(e) ==
            IF ~e.ok THEN [kind |-> "err", c |-> e.c, err |-> e.err]
            ELSE body(e, e.c.pos,
                      SkipBalanced(e.c.tokens, e.c.pos, 1, "ForKeyword", "EndForKeyword"))
      IN with_collection(evaluate_expression(SetPos(c, p2)))

\* The orders in which a HashMap may hand out its keys: every one.
KeyOrders(keys) ==
    {o \in [1..Cardinality(keys) -> keys] : \A i, j \in DOMAIN o : i # j => o[i] # o[j]}

ForOrders(collection) ==
    IF collection.t = "Dictionary" THEN KeyOrders(DOMAIN collection.d) ELSE {<<>>}

\* A loop that visits a list from its last element: C23 does not hold of it.
RECURSIVE Reversed(_)
Reversed(q) == IF q = <<>> THEN <<>> ELSE Append(Reversed(Tail(q)), Head(q))
for_items_reversed(collection, order) ==
    IF collection.t = "List" THEN Reversed(collection.l) ELSE <<>>

\* The values the loop variable takes, in order.
for_items(collection, order) ==
    CASE collection.t = "List" -> collection.l
      [] collection.t = "Dictionary" ->
           [i \in 1..Len(order) |->
              ObjDictionary([x \in {"key", "value"} |->
                 IF x = "key" THEN ObjStr(order[i]) ELSE collection.d[order[i]]])]
      [] collection.t = "Numerical" ->
           [i \in 1..collection.n |-> ObjNumerical(i - 1)]
      [] OTHER -> <<>>

\* One turn of the `for item in ..` loop of handle_for_loop.
for_next(c, h) ==
    IF h.items = <<>> THEN Next_(c)
    ELSE LET c1 == DataInsert(c, h.loop_var, Head(h.items)) IN
         Nested(c1, [h EXCEPT !.items = Tail(@)], NewCompiler(h.loop_body, Snapshot(c1.data)))

handle_for_loop(c, order) ==
    LET iterate(pre) ==
          CASE pre.kind = "err" -> Raise(pre.c, pre.err)
            [] pre.kind = "panic" -> Panic(pre.c)
            [] OTHER ->
                 IF pre.collection.t \in {"List", "Dictionary", "Numerical"}
                 THEN for_next(pre.c, [kind |-> "for", loop_var |-> pre.loop_var,
                                       items |-> for_items(pre.collection, order),
                                       loop_body |-> pre.loop_body])
                 ELSE Next_(Push(pre.c,
                        "<!-- For loop requires a list, dictionary, or number, got "
                          \o type_of(pre.collection) \o " -->"))
    IN iterate(for_prelude(c))

\* The orders in which the loop at c.pos may visit its collection.
for_orders(c) ==
    LET orders(pre) == IF pre.kind = "ok" THEN ForOrders(pre.collection) ELSE {<<>>}
    IN orders(for_prelude(c))

for_return(c, h, nested) == for_next(Merge(c, nested), h)

WhileExit(c, h, how) ==
    [kind |-> "next", c |-> SetPos(c, h.end_pos), note |-> [how |-> how, runs |-> h.iteration]]

\* The head of `while iteration < MAX_ITERATIONS`: the condition, then the body.
while_iterate(c, h) ==
    IF h.iteration < MAX_ITERATIONS
    THEN LET branch(cd) ==
               IF ~cd.b THEN WhileExit(cd.c, h, "cond")
               ELSE Nested(cd.c, h, NewCompiler(h.loop_body, Snapshot(cd.c.data)))
         IN branch(evaluate_condition(SetPos(c, h.condition_pos)))
    ELSE WhileExit(c, h, "limit")

handle_while_loop(c) ==
    LET condition_pos == c.pos + 1
        end_pos == SkipBalanced(c.tokens, condition_pos, 1,
                                "WhileKeyword", "EndWhileKeyword").pos
    IN
    IF condition_pos + 1 > end_pos - 1 THEN Panic(c)
    ELSE while_iterate(SetPos(c, condition_pos),
           [kind |-> "while", condition_pos |-> condition_pos, end_pos |-> end_pos,
            loop_body |-> Slice(c.tokens, condition_pos + 1, end_pos - 1),
            iteration |-> 0])

\* The body of the loop returned Ok.
while_return(c, h, nested) ==
    LET c1 == Merge(c, nested)
        h1 == [h EXCEPT !.iteration = @ + 1]
    IN
    IF h1.iteration = MAX_ITERATIONS
    THEN WhileExit(Push(c1, "<!-- While loop exceeded maximum iterations - possible infinite loop -->"),
                   h1, "limit")
    ELSE while_iterate(c1, h1)

\* The body of the loop returned Err(e): the loop ends, the render goes on.
while_failed(c, h, e) ==
    WhileExit(Push(c, "<!-- Error in while loop: " \o e \o " -->"), h, "error")

handle_output(c) ==
    LET write(e) ==
          IF ~e.ok THEN Raise(e.c, e.err)
          ELSE Next_(Push(e.c, interal_value_as_string(e.v)))
    IN write(evaluate_expression(SetPos(c, c.pos + 1)))

\* The Identifier arm of generate_output.
handle_identifier(c) ==
    LET write(r) ==
          IF ~r.ok THEN Raise(r.c, r.err)
          ELSE IF r.some THEN Next_(Push(r.c, interal_value_as_string(r.v)))
          ELSE Next_(r.c)
    IN write(handle_variable_access(SetPos(c, c.pos + 1), TokAt(c.tokens, c.pos).name, TRUE))

(***************************************************************************)
(* The compilers alive.  A frame is one TemplateCompiler with the loop or  *)
(* placeholder handler that waits for the compiler above it (h), and two   *)
(* history fields: ev, the statement this compiler dispatched last, and    *)
(* entry, the binding table the compiler was created with.                 *)
(***************************************************************************)
NoRet == [entry |-> EmptyMap, touched |-> EmptyMap]
NoEvent == [kind |-> "", at |-> 0 - 1, out0 |-> 0, note |-> NoNote, ret |-> NoRet]
NewFrame(c) == [c |-> c, h |-> HNone, ev |-> NoEvent, entry |-> c.data]

Top == stack[Len(stack)]
Front(stk) == SubSeq(stk, 1, Len(stk) - 1)

\* The statement about to be dispatched by the innermost compiler.
Dispatched == [kind |-> TokAt(Top.c.tokens, Top.c.pos).k, at |-> Top.c.pos,
               out0 |-> Len(Top.c.output), note |-> NoNote, ret |-> NoRet]

\* A nested compiler returned Ok to the handler waiting in the frame below.
Returned ==
    LET below == stack[Len(stack) - 1] IN
    [kind |-> "return", at |-> below.ev.at, out0 |-> below.ev.out0, note |-> NoNote,
     ret |-> [entry |-> Top.entry, touched |-> Top.c.touched]]

\* Err(e) travels down the compilers: `Err(e) => return Err(e)` in the
\* placeholder arm and in handle_for_loop, swallowed by handle_while_loop.
RECURSIVE Unwind(_, _)
Unwind(stk, e) ==
    IF stk = <<>> THEN [failed |-> TRUE, stack |-> <<>>]
    ELSE LET f == stk[Len(stk)] IN
         IF f.h.kind = "while"
         THEN LET o == while_failed(f.c, f.h, e) IN
              [failed |-> FALSE,
               stack |-> [stk EXCEPT ![Len(stk)] =
                            [f EXCEPT !.c = o.c, !.h = HNone,
                                      !.ev = [@ EXCEPT !.kind = "return", !.note = o.note,
                                                       !.ret = NoRet]]]]
         ELSE Unwind(Front(stk), e)

\* What generate_output does with the outcome o of the handler that ran in
\* the top compiler of stk.
Step(stk, o, ev) ==
    LET n == Len(stk) IN
    CASE o.kind = "next" ->
           /\ stack' = [stk EXCEPT ![n] = [@ EXCEPT !.c = o.c, !.h = HNone,
                                                    !.ev = [ev EXCEPT !.note = o.note]]]
           /\ UNCHANGED <<scenario, manager, phase, result>>
      [] o.kind = "push" ->
           /\ stack' = Append([stk EXCEPT ![n] = [@ EXCEPT !.c = o.c, !.h = o.h, !.ev = ev]],
                              NewFrame(o.child))
           /\ UNCHANGED <<scenario, manager, phase, result>>
      [] o.kind = "err" ->
           LET caught(u) ==
                 IF u.failed
                 THEN /\ stack' = <<>>
                      /\ phase' = "done"
                      /\ result' = [result EXCEPT !.kind = "err", !.err = o.err]
                      /\ UNCHANGED <<scenario, manager>>
                 ELSE /\ stack' = u.stack
                      /\ UNCHANGED <<scenario, manager, phase, result>>
           IN caught(Unwind(Front(stk), o.err))
      [] OTHER ->
           /\ stack' = <<>>
           /\ phase' = "done"
           /\ result' = [result EXCEPT !.kind = "panic"]
           /\ UNCHANGED <<scenario, manager>>

Dispatch(k) ==
    /\ phase = "run"
    /\ Top.c.pos < Len(Top.c.tokens)
    /\ TokAt(Top.c.tokens, Top.c.pos).k = k

StatementKinds ==
    {"HtmlContent", "PlaceholderKeyword", "BlockKeyword", "EndBlockKeyword", "LetKeyword",
     "IfKeyword", "ForKeyword", "WhileKeyword", "OutputKeyword", "DelKeyword", "Identifier",
     "EndOfStatement"}

ExecHtml ==
    /\ Dispatch("HtmlContent")
    /\ Step(stack, Next_(SetPos(Push(Top.c, TokAt(Top.c.tokens, Top.c.pos).text),
                                Top.c.pos + 1)), Dispatched)

ExecPlaceholder == Dispatch("PlaceholderKeyword") /\ Step(stack, handle_placeholder(Top.c), Dispatched)

ExecBlockKeyword == Dispatch("BlockKeyword") /\ Step(stack, handle_block_keyword(Top.c), Dispatched)

ExecEndBlock ==
    Dispatch("EndBlockKeyword") /\ Step(stack, Next_(SetPos(Top.c, Top.c.pos + 1)), Dispatched)

ExecLet == Dispatch("LetKeyword") /\ Step(stack, handle_assignment(Top.c), Dispatched)

ExecIf == Dispatch("IfKeyword") /\ Step(stack, handle_if_statement(Top.c), Dispatched)

ExecFor ==
    /\ Dispatch("ForKeyword")
    /\ \E order \in for_orders(Top.c) :
          Step(stack, handle_for_loop(Top.c, order), Dispatched)

ExecWhile == Dispatch("WhileKeyword") /\ Step(stack, handle_while_loop(Top.c), Dispatched)

ExecOutput == Dispatch("OutputKeyword") /\ Step(stack, handle_output(Top.c), Dispatched)

ExecDel == Dispatch("DelKeyword") /\ Step(stack, handle_deletion(Top.c), Dispatched)

ExecIdentifier == Dispatch("Identifier") /\ Step(stack, handle_identifier(Top.c), Dispatched)

ExecEOS ==
    Dispatch("EndOfStatement") /\ Step(stack, Next_(SetPos(Top.c, Top.c.pos + 1)), Dispatched)

\* `_ => self.pos += 1`
ExecOther ==
    /\ phase = "run"
    /\ Top.c.pos < Len(Top.c.tokens)
    /\ TokAt(Top.c.tokens, Top.c.pos).k \notin StatementKinds
    /\ Step(stack, Next_(SetPos(Top.c, Top.c.pos + 1)), Dispatched)

\* generate_output of a nested compiler returns Ok(output).
NestedDone(k) ==
    /\ phase = "run"
    /\ Len(stack) > 1
    /\ Top.c.pos >= Len(Top.c.tokens)
    /\ stack[Len(stack) - 1].h.kind = k

ReturnPlaceholder ==
    /\ NestedDone("placeholder")
    /\ Step(Front(stack), placeholder_return(stack[Len(stack) - 1].c, Top.c), Returned)

ReturnFor ==
    /\ NestedDone("for")
    /\ Step(Front(stack),
            for_return(stack[Len(stack) - 1].c, stack[Len(stack) - 1].h, Top.c), Returned)

ReturnWhile ==
    /\ NestedDone("while")
    /\ Step(Front(stack),
            while_return(stack[Len(stack) - 1].c, stack[Len(stack) - 1].h, Top.c), Returned)

\* generate_output of the outermost compiler returns Ok(self.output.clone()).
Finish ==
    /\ phase = "run"
    /\ Len(stack) = 1
    /\ Top.c.pos >= Len(Top.c.tokens)
    /\ phase' = "done"
    /\ result' = [result EXCEPT !.kind = "ok", !.out = Top.c.output]
    /\ UNCHANGED <<scenario, manager, stack>>

(***************************************************************************)
(* Template names (template_manager.rs).  A name is a string; Chars gives  *)
(* its characters, for the names the scenarios use, so that get_full_dir   *)
(* can be computed character by character as the program does.             *)
(***************************************************************************)
RECURSIVE Concat(_)
Concat(q) == IF q = <<>> THEN "" ELSE Head(q) \o Concat(Tail(q))

PathTable ==
    << <<>>,
       <<"A">>, <<"B">>, <<"/", "A">>, <<"/", "B">>,
       <<"t", "/", "A">>, <<"t", "/", "B">>,
       <<"h", "o", "m", "e">>, <<"b", "a", "s", "e">>, <<"/", "b", "a", "s", "e">>,
       <<"t", "/", "h", "o", "m", "e">>, <<"t", "/", "b", "a", "s", "e">>,
       <<"x">>, <<"/", "x">>, <<"t", "/", "x">>,
       <<"t", "/", "s", "/", "A">>, <<"t", "/">>,
       <<"L">>, <<"E">>, <<"N">>, <<"t", "/", "L">>, <<"t", "/", "E">>, <<"t", "/", "N">>,
       <<"t", "/", "P">>, <<"t", "/", "S">>, <<"t", "/", "K">>, <<"t", "/", "J">>,
       <<"t", "/", "O">>, <<"P">> >>

Chars(s) == PathTable[CHOOSE i \in 1..Len(PathTable) : Concat(PathTable[i]) = s]

StartsWith(q, ch) == q # <<>> /\ q[1] = ch
EndsWith(q, ch) == q # <<>> /\ q[Len(q)] = ch

RECURSIVE trim_start_matches(_, _)
trim_start_matches(q, ch) == IF StartsWith(q, ch) THEN trim_start_matches(Tail(q), ch) ELSE q

\* str::rfind as a 1-based position, 0 for None.
rfind(q, ch) ==
    IF \E i \in 1..Len(q) : q[i] = ch
    THEN CHOOSE i \in 1..Len(q) : q[i] = ch /\ \A j \in (i + 1)..Len(q) : q[j] # ch
    ELSE 0

get_full_dir(path, ori) ==
    LET p == Chars(path)
        o == Chars(ori)
    IN
    IF StartsWith(p, "/") \/ StartsWith(p, "\\")
    THEN Concat(trim_start_matches(trim_start_matches(p, "/"), "\\"))
    ELSE
      LET dir == IF rfind(o, "/") > 0 THEN SubSeq(o, 1, rfind(o, "/") - 1)
                 ELSE IF rfind(o, "\\") > 0 THEN SubSeq(o, 1, rfind(o, "\\") - 1)
                 ELSE o
      IN
      IF EndsWith(dir, "/") \/ EndsWith(dir, "\\")
      THEN Concat(dir \o p)
      ELSE Concat(dir \o <<"/">> \o p)

(***************************************************************************)
(* TemplateManager.  x is the manager together with the recursion_count    *)
(* cell the resolver functions share.  The files of the template directory *)
(* are the sequence manager.files of [name, tokens] records, tokens being  *)
(* tokenize(content); a name that is not the exact name of a file cannot   *)
(* be read.                                                                *)
(***************************************************************************)
IoError == "No such file or directory (os error 2)"

read_template_token(x, template_name) ==
    IF \E i \in 1..Len(x.files) : x.files[i].name = template_name
    THEN [ok |-> TRUE, err |-> "",
          tokens |-> x.files[CHOOSE i \in 1..Len(x.files) : x.files[i].name = template_name].tokens]
    ELSE [ok |-> FALSE, tokens |-> <<>>,
          err |-> "Failed to read template '" \o template_name \o "': " \o IoError]

\* load_into_cache without its cache.insert.
load_without_insert(x, template_name) == x

\* load_into_cache dropping the entry of a template that cannot be read.
load_evicting(x, template_name) ==
    IF x.cache_enabled
    THEN IF read_template_token(x, template_name).ok
         THEN [x EXCEPT !.template_cache =
                 StrInsert(@, template_name, read_template_token(x, template_name).tokens)]
         ELSE [x EXCEPT !.template_cache = StrRemove(@, template_name)]
    ELSE x

load_into_cache(x, template_name) ==
    IF x.cache_enabled /\ read_template_token(x, template_name).ok
    THEN [x EXCEPT !.template_cache =
            StrInsert(@, template_name, read_template_token(x, template_name).tokens)]
    ELSE x

get_from_cache(x, template_name) ==
    IF x.cache_enabled /\ template_name \in DOMAIN x.template_cache
    THEN [some |-> TRUE, tokens |-> x.template_cache[template_name]]
    ELSE [some |-> FALSE, tokens |-> <<>>]

load_tokens(x, template_name) ==
    IF x.cache_enabled /\ get_from_cache(x, template_name).some
    THEN [ok |-> TRUE, err |-> "", tokens |-> get_from_cache(x, template_name).tokens, x |-> x]
    ELSE LET loaded(r) ==
               IF ~r.ok THEN [ok |-> FALSE, err |-> r.err, tokens |-> <<>>, x |-> x]
               ELSE [ok |-> TRUE, err |-> "", tokens |-> r.tokens,
                     x |-> load_into_cache(x, template_name)]
         IN loaded(read_template_token(x, template_name))

extract_parent_template_name(tokens) ==
    IF \E i \in 0..(Len(tokens) - 1) : IsKw(tokens, i, "TemplateKeyword")
    THEN LET i == CHOOSE i \in 0..(Len(tokens) - 1) :
                    /\ IsKw(tokens, i, "TemplateKeyword")
                    /\ \A j \in 0..(i - 1) : ~IsKw(tokens, j, "TemplateKeyword")
         IN IF i + 1 < Len(tokens) /\ IsKw(tokens, i + 1, "Object")
                                   /\ TokAt(tokens, i + 1).obj.t = "Str"
            THEN [some |-> TRUE, name |-> TokAt(tokens, i + 1).obj.s]
            ELSE [some |-> FALSE, name |-> ""]
    ELSE [some |-> FALSE, name |-> ""]

\* The first position at or after i of a token whose kind is in kinds,
\* Len(tokens) when there is none: where a loop that steps over every other
\* token (`i += 1`) arrives.
NextAt(tokens, i, kinds) ==
    LET least(S) == IF S = {} THEN Len(tokens) ELSE CHOOSE j \in S : \A m \in S : j <= m
    IN least({j \in i..(Len(tokens) - 1) : TokAt(tokens, j).k \in kinds})

\* The search for the matching endblock that stops ON it (`break` at depth 0).
RECURSIVE FindEndBlock(_, _, _)
FindEndBlock(tokens, pos, depth) ==
    IF pos < Len(tokens) /\ depth > 0
    THEN LET k == TokAt(tokens, pos).k IN
         IF k = "EndBlockKeyword" /\ depth = 1 THEN [pos |-> pos, depth |-> 0]
         ELSE FindEndBlock(tokens, pos + 1,
                IF k = "BlockKeyword" THEN depth + 1
                ELSE IF k = "EndBlockKeyword" THEN depth - 1 ELSE depth)
    ELSE [pos |-> pos, depth |-> depth]

\* The loop of extract_blocks from position i on, blocks being the map so far.
RECURSIVE extract_blocks_from(_, _, _)
extract_blocks_from(tokens, i, blocks) ==
    LET at(b) ==
          IF b >= Len(tokens) THEN [ok |-> TRUE, blocks |-> blocks, err |-> ""]
          ELSE IF b + 1 < Len(tokens) /\ IsKw(tokens, b + 1, "Identifier")
          THEN LET block_name == TokAt(tokens, b + 1).name
                   start == SkipEos(tokens, b + 2)
                   found(f) ==
                     IF f.depth > 0
                     THEN [ok |-> FALSE, blocks |-> blocks,
                           err |-> "Unterminated block: " \o block_name]
                     ELSE extract_blocks_from(tokens, f.pos + 1,
                            StrInsert(blocks, block_name, Slice(tokens, start, f.pos)))
               IN found(FindEndBlock(tokens, start, 1))
          ELSE extract_blocks_from(tokens, b + 1, blocks)
    IN at(NextAt(tokens, i, {"BlockKeyword"}))

extract_blocks(tokens) == extract_blocks_from(tokens, 0, NoBlocks)

\* The loop of create_template_with_blocks from position i on: the tokens
\* before the next `template` or `block` keyword are copied as they are.
RECURSIVE create_template_from(_, _, _)
create_template_from(template_tokens, blocks, i) ==
    LET at(n) ==
          IF n >= Len(template_tokens) THEN Slice(template_tokens, i, Len(template_tokens))
          ELSE
            Slice(template_tokens, i, n) \o
            (IF IsKw(template_tokens, n, "TemplateKeyword")
             THEN create_template_from(template_tokens, blocks, n + 2)
             ELSE IF n + 1 < Len(template_tokens) /\ IsKw(template_tokens, n + 1, "Identifier")
             THEN
               LET name == TokAt(template_tokens, n + 1).name
                   hasEos == IsKw(template_tokens, n + 2, "EndOfStatement")
                   closed(f) ==
                     (IF f.depth = 0 THEN <<TokAt(template_tokens, f.pos)>> ELSE <<>>)
                       \o create_template_from(template_tokens, blocks, f.pos + 1)
               IN <<TokAt(template_tokens, n), TokAt(template_tokens, n + 1)>>
                  \o (IF hasEos THEN <<EndOfStatement>> ELSE <<>>)
                  \o (IF name \in DOMAIN blocks THEN blocks[name] ELSE <<>>)
                  \o closed(FindEndBlock(template_tokens, IF hasEos THEN n + 3 ELSE n + 2, 1))
             ELSE <<TokAt(template_tokens, n)>>
                    \o create_template_from(template_tokens, blocks, n + 1))
    IN at(NextAt(template_tokens, IF i > Len(template_tokens) THEN Len(template_tokens) ELSE i,
                 {"TemplateKeyword", "BlockKeyword"}))

create_template_with_blocks(template_tokens, blocks) ==
    create_template_from(template_tokens, blocks, 0)

\* `for (name, tokens) in child_blocks { merged_blocks.insert(name, tokens) }`
MergeBlocks(parent_blocks, child_blocks) ==
    [n \in (DOMAIN parent_blocks) \cup (DOMAIN child_blocks) |->
        IF n \in DOMAIN child_blocks THEN child_blocks[n] ELSE parent_blocks[n]]

MaxDepthDiagnostic == "<!-- Template Error: Maximum recursion depth exceeded -->"

\* The position of the first EndOfStatement at or after j, Len(tokens) if none.
FindEos(tokens, j) == NextAt(tokens, j, {"EndOfStatement"})

RECURSIVE expand_template(_, _, _)
RECURSIVE insert_template_from(_, _, _, _)
RECURSIVE extend_with_parent(_, _, _)

\* The loop of insert_template from position i on.
insert_template_from(x, tokens, self_dir, i) ==
    LET at(n) ==
          IF n >= Len(tokens) THEN [tokens |-> tokens, x |-> x]
          ELSE IF /\ n + 1 < Len(tokens)
                  /\ IsKw(tokens, n + 1, "Object")
                  /\ TokAt(tokens, n + 1).obj.t = "Str"
                  /\ FindEos(tokens, n + 2) < Len(tokens)
          THEN LET splice(j, tokens_to_insert) ==
                     LET new_position == j + 1 + Len(tokens_to_insert.tokens) IN
                     insert_template_from(tokens_to_insert.x,
                                          Slice(tokens, 0, j + 1) \o tokens_to_insert.tokens
                                             \o Slice(tokens, j + 1, Len(tokens)),
                                          self_dir, new_position - 1)
                   load(full_path, ld) ==
                     IF ld.ok THEN expand_template(ld.x, ld.tokens, full_path)
                     ELSE [tokens |-> <<HtmlContent("<!-- Template Error: " \o full_path
                                                    \o " - " \o ld.err \o " -->")>>,
                           x |-> ld.x]
                   resolve(full_path) ==
                     splice(FindEos(tokens, n + 2), load(full_path, load_tokens(x, full_path)))
               IN resolve(get_full_dir(TokAt(tokens, n + 1).obj.s, self_dir))
          ELSE insert_template_from(x, tokens, self_dir, n + 1)
    IN at(NextAt(tokens, i, {"InsertKeyword"}))

\* insert_template going on at the first spliced token instead of after the
\* last: the spliced tokens are scanned for markers again.  C29 does not
\* hold of it.
RECURSIVE insert_rescanning_from(_, _, _, _)
insert_rescanning_from(x, tokens, self_dir, i) ==
    LET at(n) ==
          IF n >= Len(tokens) THEN [tokens |-> tokens, x |-> x]
          ELSE IF /\ n + 1 < Len(tokens)
                  /\ IsKw(tokens, n + 1, "Object")
                  /\ TokAt(tokens, n + 1).obj.t = "Str"
                  /\ FindEos(tokens, n + 2) < Len(tokens)
          THEN LET splice(j, tokens_to_insert) ==
                     insert_rescanning_from(tokens_to_insert.x,
                                            Slice(tokens, 0, j + 1) \o tokens_to_insert.tokens
                                               \o Slice(tokens, j + 1, Len(tokens)),
                                            self_dir, j + 1)
                   load(full_path, ld) ==
                     IF ld.ok THEN expand_template(ld.x, ld.tokens, full_path)
                     ELSE [tokens |-> <<HtmlContent("<!-- Template Error: " \o full_path
                                                    \o " - " \o ld.err \o " -->")>>,
                           x |-> ld.x]
                   resolve(full_path) ==
                     splice(FindEos(tokens, n + 2), load(full_path, load_tokens(x, full_path)))
               IN resolve(get_full_dir(TokAt(tokens, n + 1).obj.s, self_dir))
          ELSE insert_rescanning_from(x, tokens, self_dir, n + 1)
    IN at(NextAt(tokens, i, {"InsertKeyword"}))

insert_template_rescanning(x, tokens, self_dir) == insert_rescanning_from(x, tokens, self_dir, 0)

insert_template(x, tokens, self_dir) == insert_template_from(x, tokens, self_dir, 0)

extend_with_parent(x, tokens, self_dir) ==
    LET merged(parent, parent_blocks, child_blocks) ==
          IF ~parent_blocks.ok
          THEN [ok |-> FALSE, err |-> parent_blocks.err, tokens |-> <<>>, x |-> parent.x]
          ELSE IF ~child_blocks.ok
          THEN [ok |-> FALSE, err |-> child_blocks.err, tokens |-> <<>>, x |-> parent.x]
          ELSE [ok |-> TRUE, err |-> "", x |-> parent.x,
                tokens |-> create_template_with_blocks(parent.tokens,
                             MergeBlocks(parent_blocks.blocks, child_blocks.blocks))]
        with_parent(parent) ==
          merged(parent, extract_blocks(parent.tokens), extract_blocks(tokens))
        loaded(parent_name, ld) ==
          IF ~ld.ok THEN [ok |-> FALSE, err |-> ld.err, tokens |-> <<>>, x |-> ld.x]
          ELSE with_parent(expand_template(ld.x, ld.tokens, parent_name))
        extend(parent_name) == loaded(parent_name, load_tokens(x, parent_name))
        alone(blocks) ==
          IF ~blocks.ok THEN [ok |-> FALSE, err |-> blocks.err, tokens |-> <<>>, x |-> x]
          ELSE [ok |-> TRUE, err |-> "", x |-> x,
                tokens |-> create_template_with_blocks(tokens, blocks.blocks)]
        decide(pn) ==
          IF pn.some THEN extend(get_full_dir(pn.name, self_dir))
          ELSE alone(extract_blocks(tokens))
    IN decide(extract_parent_template_name(tokens))

expand_template(x, tokens, self_dir) ==
    IF x.recursion_count > x.max_recursion_depth
    THEN [tokens |-> <<HtmlContent(MaxDepthDiagnostic)>>, x |-> x]
    ELSE
      LET finish(extended) ==
            IF extended.ok THEN [tokens |-> extended.tokens, x |-> extended.x]
            ELSE [tokens |-> <<HtmlContent("<!-- Template Error: " \o extended.err \o " -->")>>,
                  x |-> extended.x]
          extend(inserted) == finish(extend_with_parent(inserted.x, inserted.tokens, self_dir))
      IN extend(insert_template([x EXCEPT !.recursion_count = @ + 1], tokens, self_dir))

(***************************************************************************)
(* The entry points.                                                       *)
(***************************************************************************)
\* The manager with a fresh recursion_count cell (`&mut 0`).
Fresh ==
    [files |-> manager.files, max_recursion_depth |-> manager.max_recursion_depth,
     cache_enabled |-> manager.cache_enabled, template_cache |-> manager.template_cache,
     recursion_count |-> 0]

\* compile(tokens, data.clone()) is entered with the resolved tokens; the
\* history field expansions keeps the final value of recursion_count.
EnterCompile(e) ==
    /\ manager' = [manager EXCEPT !.template_cache = e.x.template_cache]
    /\ stack' = <<NewFrame(NewCompiler(e.tokens, scenario.data))>>
    /\ phase' = "compile"
    /\ result' = [result EXCEPT !.expansions = e.x.recursion_count]
    /\ UNCHANGED scenario

\* TemplateManager::render
Render ==
    /\ phase = "start"
    /\ scenario.entry = "render"
    /\ LET loaded(ld) ==
             IF ~ld.ok
             THEN /\ phase' = "done"
                  /\ result' = [result EXCEPT !.kind = "err", !.err = ld.err]
                  /\ UNCHANGED <<scenario, manager, stack>>
             ELSE EnterCompile(expand_template(ld.x, ld.tokens, scenario.name))
       IN loaded(load_tokens(Fresh, scenario.name))

\* TemplateManager::render_string; scenario.tokens is tokenize(template_str).
RenderString ==
    /\ phase = "start"
    /\ scenario.entry = "render_string"
    /\ EnterCompile(expand_template(Fresh, scenario.tokens, ""))

\* pub fn compile(tokens, data)
CompileTokens ==
    /\ phase = "start"
    /\ scenario.entry = "compile"
    /\ stack' = <<NewFrame(NewCompiler(scenario.tokens, scenario.data))>>
    /\ phase' = "compile"
    /\ UNCHANGED <<scenario, manager, result>>

\* TemplateCompiler::compile up to the call of generate_output.
Compile ==
    /\ phase = "compile"
    /\ LET second_pass(o) ==
             IF o.kind = "err"
             THEN /\ phase' = "done"
                  /\ stack' = <<>>
                  /\ result' = [result EXCEPT !.kind = "err", !.err = o.err]
             ELSE /\ stack' = <<[Top EXCEPT !.c = [o.c EXCEPT !.pos = 0, !.output = <<>>]]>>
                  /\ IF o.c.export_mode
                     THEN phase' = "done" /\ result' = [result EXCEPT !.kind = "ok", !.out = <<>>]
                     ELSE phase' = "run" /\ UNCHANGED result
       IN second_pass(collect_blocks_and_metadata(Top.c))
    /\ UNCHANGED <<scenario, manager>>

(***************************************************************************)
(* The lexer (template/parse.rs).  The input is a sequence of characters,  *)
(* each a one-character string; a Lexer is the input with pos, the number  *)
(* of characters consumed (every character of the inputs explored is one   *)
(* byte).  A lexing function returns the lexer it leaves and its token.    *)
(***************************************************************************)
Lexer(input, pos) == [input |-> input, pos |-> pos]
Lexed(tok, lx) == [tok |-> tok, lx |-> lx]

DecimalDigits == <<"0", "1", "2", "3", "4", "5", "6", "7", "8", "9">>
is_digit(ch) == \E i \in 1..Len(DecimalDigits) : DecimalDigits[i] = ch
DigitValue(ch) == (CHOOSE i \in 1..Len(DecimalDigits) : DecimalDigits[i] = ch) - 1
is_whitespace(ch) == ch \in {" ", "\n", "\t", "\r"}
is_alphabetic(ch) ==
    ch \in {"a", "b", "c", "d", "e", "f", "g", "h", "i", "j", "k", "l", "m", "n", "o", "p", "q",
            "r", "s", "t", "u", "v", "w", "x", "y", "z"}

AtEnd(lx) == lx.pos >= Len(lx.input)
\* peek() of a lexer not at its end
peek(lx) == lx.input[lx.pos + 1]
peek_str(lx, s) ==
    /\ lx.pos + Len(s) <= Len(lx.input)
    /\ SubSeq(lx.input, lx.pos + 1, lx.pos + Len(s)) = s
Advance(lx, n) == [lx EXCEPT !.pos = @ + n]
Consumed(lx, start) == SubSeq(lx.input, start + 1, lx.pos)

RECURSIVE skip_whitespace(_)
skip_whitespace(lx) ==
    IF ~AtEnd(lx) /\ is_whitespace(peek(lx)) THEN skip_whitespace(Advance(lx, 1)) ELSE lx

peek_next_is_digit(lx) == lx.pos + 2 <= Len(lx.input) /\ is_digit(lx.input[lx.pos + 2])

Unescaped(escaped) ==
    CASE escaped = "n" -> "\n"
      [] escaped = "t" -> "\t"
      [] escaped = "r" -> "\r"
      [] OTHER -> escaped

\* The `while let Some(ch) = self.next_char()` loop of lex_string.
RECURSIVE string_loop(_, _)
string_loop(lx, s) ==
    IF AtEnd(lx) THEN Lexed(Object(ObjStr(s)), lx)
    ELSE IF peek(lx) = "\"" THEN Lexed(Object(ObjStr(s)), Advance(lx, 1))
    ELSE IF peek(lx) = "\\"
    THEN IF AtEnd(Advance(lx, 1)) THEN string_loop(Advance(lx, 1), s)
         ELSE string_loop(Advance(lx, 2), s \o Unescaped(peek(Advance(lx, 1))))
    ELSE string_loop(Advance(lx, 1), s \o peek(lx))

lex_string(lx) == string_loop(Advance(lx, 1), "")

\* The digit loop of lex_number.
RECURSIVE number_loop(_, _)
number_loop(lx, dot_encountered) ==
    IF AtEnd(lx) THEN lx
    ELSE IF is_digit(peek(lx)) THEN number_loop(Advance(lx, 1), dot_encountered)
    ELSE IF peek(lx) = "." /\ ~dot_encountered THEN number_loop(Advance(lx, 1), TRUE)
    ELSE lx

RECURSIVE DigitsValue(_)
DigitsValue(q) == IF q = <<>> THEN 0 ELSE 10 * DigitsValue(SubSeq(q, 1, Len(q) - 1)) + DigitValue(q[Len(q)])

RECURSIVE TrimZeros(_)
TrimZeros(q) == IF q # <<>> /\ q[Len(q)] = "0" THEN TrimZeros(SubSeq(q, 1, Len(q) - 1)) ELSE q

\* number_str.parse::<f64>() of an optional sign, digits, and an optional
\* point with digits: the integers as Obj::Numerical keeps them in the
\* model, a value with a fraction with its fraction digits beside.
ParseF64(q) ==
    LET neg == q # <<>> /\ q[1] = "-"
        body == IF neg THEN Tail(q) ELSE q
        dot == IF \E i \in 1..Len(body) : body[i] = "."
               THEN CHOOSE i \in 1..Len(body) : body[i] = "." ELSE Len(body) + 1
        whole == DigitsValue(SubSeq(body, 1, dot - 1))
        frac == TrimZeros(SubSeq(body, dot + 1, Len(body)))
    IN IF frac = <<>> THEN ObjNumerical(IF neg THEN 0 - whole ELSE whole)
       ELSE [t |-> "Numerical", n |-> IF neg THEN 0 - whole ELSE whole, frac |-> frac]

lex_number(lx) ==
    LET number(after) == Lexed(Object(ParseF64(Consumed(after, lx.pos))), after)
    IN number(number_loop(IF peek(lx) = "-" THEN Advance(lx, 1) ELSE lx, FALSE))

RECURSIVE identifier_loop(_)
identifier_loop(lx) ==
    IF ~AtEnd(lx) /\ (is_alphabetic(peek(lx)) \/ is_digit(peek(lx)) \/ peek(lx) = "_")
    THEN identifier_loop(Advance(lx, 1)) ELSE lx

Keywords ==
    << <<"template", "TemplateKeyword">>, <<"insert", "InsertKeyword">>,
       <<"block", "BlockKeyword">>, <<"endblock", "EndBlockKeyword">>,
       <<"export", "ExportKeyword">>, <<"placeholder", "PlaceholderKeyword">>,
       <<"let", "LetKeyword">>, <<"for", "ForKeyword">>, <<"in", "InKeyword">>,
       <<"if", "IfKeyword">>, <<"output", "OutputKeyword">>, <<"endif", "EndIfKeyword">>,
       <<"endfor", "EndForKeyword">>, <<"while", "WhileKeyword">>,
       <<"endwhile", "EndWhileKeyword">>, <<"del", "DelKeyword">> >>

WordToken(word) ==
    CASE word = "true" -> Object(ObjBoolean(TRUE))
      [] word = "false" -> Object(ObjBoolean(FALSE))
      [] \E i \in 1..Len(Keywords) : Keywords[i][1] = word ->
           Kw(Keywords[CHOOSE i \in 1..Len(Keywords) : Keywords[i][1] = word][2])
      [] OTHER -> Identifier(word)

lex_identifier_or_keyword(lx) ==
    LET word(after) == Lexed(WordToken(Concat(Consumed(after, lx.pos))), after)
    IN word(identifier_loop(lx))

TwoCharOperators ==
    << <<"=", "=", "EqualsEquals">>, <<"!", "=", "NotEquals">>, <<"<", "=", "LessThanEquals">>,
       <<">", "=", "GreaterThanEquals">>, <<"+", "=", "PlusAssignment">>,
       <<"-", "=", "MinusAssignment">>, <<"*", "=", "MultiplyAssignment">>,
       <<"/", "=", "DivideAssignment">>, <<"%", "=", "ModulusAssignment">>,
       <<"+", "+", "Increment">>, <<"-", "-", "Decrement">>, <<"*", "*", "Exponent">>,
       <<"&", "&", "LogicalAnd">>, <<"|", "|", "LogicalOr">> >>

OneCharOperators ==
    << <<"=", "Assignment">>, <<"+", "Plus">>, <<"-", "Minus">>, <<"*", "Multiply">>,
       <<"/", "Divide">>, <<"%", "Modulus">>, <<"<", "LessThan">>, <<">", "GreaterThan">>,
       <<"!", "LogicalNot">>, <<"(", "LeftParen">>, <<")", "RightParen">>,
       <<"[", "LeftSquareBracket">>, <<"]", "RightSquareBracket">>, <<".", "Dot">> >>

\* lex_directive_token after its skip_whitespace.
TokenAt(lx) ==
    LET two(i) == peek_str(lx, <<TwoCharOperators[i][1], TwoCharOperators[i][2]>>)
        one(i) == OneCharOperators[i][1] = peek(lx)
    IN
    IF peek_str(lx, <<"]", "-">>) \/ AtEnd(lx) THEN Lexed(EndOfStatement, lx)
    ELSE IF peek(lx) = "\"" THEN lex_string(lx)
    ELSE IF is_digit(peek(lx)) \/ (peek(lx) = "-" /\ peek_next_is_digit(lx)) THEN lex_number(lx)
    ELSE IF is_alphabetic(peek(lx)) \/ peek(lx) = "_" THEN lex_identifier_or_keyword(lx)
    ELSE IF \E i \in 1..Len(TwoCharOperators) : two(i)
    THEN Lexed(Kw(TwoCharOperators[CHOOSE i \in 1..Len(TwoCharOperators) : two(i)][3]),
               Advance(lx, 2))
    ELSE IF \E i \in 1..Len(OneCharOperators) : one(i)
    THEN Lexed(Kw(OneCharOperators[CHOOSE i \in 1..Len(OneCharOperators) : one(i)][2]),
               Advance(lx, 1))
    ELSE Lexed(Identifier(peek(lx)), Advance(lx, 1))

lex_directive_token(lx) == TokenAt(skip_whitespace(lx))

\* lex_directive without its final EndOfStatement.
directive_unmarked(tokens) == tokens

\* tokens.push(Token::EndOfStatement) at the end of lex_directive
directive_end(tokens) == tokens \o <<EndOfStatement>>

\* One pass of the `while` loop of lex_directive; the loop continues while
\* `more` holds.
directive_more(lx) == ~AtEnd(lx) /\ ~peek_str(lx, <<"]", "-">>)
directive_pass(lx, tokens) ==
    LET with_token(r) ==
          [lx |-> skip_whitespace(r.lx), tokens |-> tokens \o <<r.tok>>, broke |-> FALSE]
        pass(at) ==
          IF peek_str(at, <<"]", "-">>) THEN [lx |-> at, tokens |-> tokens, broke |-> TRUE]
          ELSE with_token(lex_directive_token(at))
    IN pass(skip_whitespace(lx))

\* The end of lex_directive: the closing marker consumed if present.
directive_close(lx, tokens) ==
    [lx |-> IF peek_str(lx, <<"]", "-">>) THEN Advance(lx, 2) ELSE lx,
     tokens |-> directive_end(tokens)]

RECURSIVE directive_loop(_, _)
directive_loop(lx, tokens) ==
    IF directive_more(lx)
    THEN LET again(p) == IF p.broke THEN directive_close(p.lx, p.tokens)
                         ELSE directive_loop(p.lx, p.tokens)
         IN again(directive_pass(lx, tokens))
    ELSE directive_close(lx, tokens)

lex_directive(lx) == directive_loop(skip_whitespace(lx), <<>>)

\* HTML mode of tokenize: the text up to the next "-[" or the end.
RECURSIVE html_end(_)
html_end(lx) ==
    IF ~AtEnd(lx) /\ ~peek_str(lx, <<"-", "[">>) THEN html_end(Advance(lx, 1)) ELSE lx

html_pass(lx, tokens) ==
    LET html(after) ==
          [lx |-> after,
           tokens |-> IF after.pos > lx.pos
                      THEN tokens \o <<HtmlContent(Concat(Consumed(after, lx.pos)))>>
                      ELSE tokens]
    IN html(html_end(lx))

RECURSIVE tokenize_loop(_, _)
tokenize_loop(lx, tokens) ==
    IF AtEnd(lx) THEN tokens
    ELSE IF peek_str(lx, <<"-", "[">>)
    THEN LET extend(d) == tokenize_loop(d.lx, tokens \o d.tokens)
         IN extend(lex_directive(Advance(lx, 2)))
    ELSE LET html(h) == tokenize_loop(h.lx, h.tokens)
         IN html(html_pass(lx, tokens))

tokenize(input) == tokenize_loop(Lexer(input, 0), <<>>)

(***************************************************************************)
(* The calls explored.  Token sequences are written as tokenize produces   *)
(* them: D(..) is one `-[ .. ]-` directive, closed by its EndOfStatement.  *)
(***************************************************************************)
MaxCount == 2   \* `for k in n` is explored for n in 0..MaxCount
MaxDepth == 3   \* templates that refer to themselves are resolved with
                \* max_recursion_depth in 0..MaxDepth, the others with the default too
DefaultMaxRecursionDepth == 10

D(lexemes) == lexemes \o <<EndOfStatement>>
Num(n) == Object(ObjNumerical(n))
Text(s) == Object(ObjStr(s))
Bool(b) == Object(ObjBoolean(b))
Id(name) == Identifier(name)
Html(text) == <<HtmlContent(text)>>

Bindings ==
    [n \in {"x", "i", "f", "t", "xs", "d"} |->
       CASE n = "x" -> ObjStr("hi")
         [] n = "i" -> ObjNumerical(0)
         [] n = "f" -> ObjBoolean(FALSE)
         [] n = "t" -> ObjBoolean(TRUE)
         [] n = "xs" -> ObjList(<<ObjNumerical(1), ObjNumerical(2)>>)
         [] OTHER -> ObjDictionary([k \in {"a", "b"} |->
                                      IF k = "a" THEN ObjNumerical(1) ELSE ObjNumerical(2)])]

Increment == D(<<Id("i"), Kw("Assignment"), Id("i"), Kw("Plus"), Num(1)>>)
DivideByZero == <<Num(1), Kw("Divide"), Num(0)>>
ModuloByZero == <<Num(1), Kw("Modulus"), Num(0)>>
BlockB == D(<<Kw("BlockKeyword"), Id("b")>>) \o Html("X") \o D(<<Kw("EndBlockKeyword")>>)

ShortCircuitTemplates ==
    << D(<<Kw("OutputKeyword"), Id("f"), Kw("LogicalAnd"), Id("x")>>) \o Html("z"),
       D(<<Kw("OutputKeyword"), Id("t"), Kw("LogicalOr"), Id("x")>>) \o Html("z"),
       D(<<Kw("LetKeyword"), Id("r"), Kw("Assignment"), Id("f"), Kw("LogicalAnd"), Id("x")>>)
         \o D(<<Kw("OutputKeyword"), Id("r")>>),
       D(<<Kw("OutputKeyword"), Id("f"), Kw("LogicalAnd"), Id("i"), Kw("Assignment"), Num(5)>>)
         \o D(<<Kw("OutputKeyword"), Id("i")>>),
       D(<<Kw("IfKeyword"), Id("t"), Kw("LogicalOr"), Id("x")>>) \o Html("A")
         \o D(<<Kw("EndIfKeyword")>>),
       D(<<Kw("IfKeyword"), Id("f"), Kw("LogicalAnd"), Id("x")>>) \o Html("A")
         \o D(<<Kw("EndIfKeyword")>>) \o Html("B"),
       D(<<Kw("WhileKeyword"), Id("i"), Kw("LessThan"), Num(1), Kw("LogicalOr"), Id("f")>>)
         \o Increment \o D(<<Kw("EndWhileKeyword")>>),
       D(<<Kw("OutputKeyword"), Id("t"), Kw("LogicalAnd"), Id("x")>>) \o Html("z"),
       D(<<Kw("OutputKeyword"), Id("f"), Kw("LogicalOr"), Id("x")>>) \o Html("z") >>

WhileTemplates ==
    << D(<<Kw("WhileKeyword"), Bool(TRUE)>>) \o Increment \o D(<<Kw("EndWhileKeyword")>>)
         \o Html("z"),
       Html("a") \o D(<<Kw("WhileKeyword"), Num(1), Kw("LessThan"), Num(2)>>)
         \o D(<<Kw("LetKeyword"), Id("i"), Kw("Assignment"), Id("i"), Kw("Plus"), Num(1)>>)
         \o D(<<Kw("EndWhileKeyword")>>) \o D(<<Kw("OutputKeyword"), Id("i")>>),
       D(<<Kw("WhileKeyword"), Id("i"), Kw("LessThan"), Num(2)>>) \o Html("a") \o Increment
         \o D(<<Kw("EndWhileKeyword")>>) \o Html("z"),
       D(<<Kw("WhileKeyword"), Id("f")>>) \o Html("a") \o D(<<Kw("EndWhileKeyword")>>)
         \o Html("z") >>

ForBody ==
    D(<<Kw("LetKeyword"), Id("y"), Kw("Assignment"), Id("k")>>) \o D(<<Kw("DelKeyword"), Id("x")>>)
      \o Html("a") \o D(<<Kw("DelKeyword"), Id("xs"), Kw("LeftSquareBracket"), Num(0),
                          Kw("RightSquareBracket")>>)

ForCount(n) ==
    D(<<Kw("ForKeyword"), Id("k"), Kw("InKeyword"), Num(n)>>) \o ForBody
      \o D(<<Kw("EndForKeyword")>>) \o D(<<Kw("OutputKeyword"), Id("y")>>)

ForTemplates ==
    [n \in 1..(MaxCount + 1) |-> ForCount(n - 1)]
    \o << D(<<Kw("ForKeyword"), Id("e"), Kw("InKeyword"), Id("d")>>)
            \o D(<<Kw("OutputKeyword"), Id("e"), Kw("Dot"), Id("key")>>)
            \o D(<<Kw("EndForKeyword")>>),
          D(<<Kw("ForKeyword"), Id("v"), Kw("InKeyword"), Id("xs")>>) \o D(<<Id("v")>>)
            \o D(<<Kw("EndForKeyword")>>),
          D(<<Kw("ForKeyword"), Id("v"), Kw("InKeyword"), Id("x")>>) \o Html("a")
            \o D(<<Kw("EndForKeyword")>>),
          D(<<Kw("ForKeyword"), Kw("InKeyword")>>) >>

BlockTemplates ==
    << BlockB,
       D(<<Kw("BlockKeyword"), Id("b")>>) \o Html("X")
         \o D(<<Kw("LetKeyword"), Id("y"), Kw("Assignment"), Num(1)>>)
         \o D(<<Kw("DelKeyword"), Id("x")>>) \o D(<<Kw("EndBlockKeyword")>>) \o Html("M")
         \o D(<<Kw("PlaceholderKeyword"), Id("b")>>) \o D(<<Kw("OutputKeyword"), Id("y")>>),
       D(<<Kw("PlaceholderKeyword"), Id("nb")>>) \o Html("z"),
       BlockB \o D(<<Kw("ForKeyword"), Id("k"), Kw("InKeyword"), Num(1)>>)
         \o D(<<Kw("PlaceholderKeyword"), Id("b")>>) \o D(<<Kw("EndForKeyword")>>),
       D(<<Kw("BlockKeyword"), Id("a")>>) \o D(<<Kw("PlaceholderKeyword"), Id("b")>>)
         \o D(<<Kw("EndBlockKeyword")>>) \o BlockB \o D(<<Kw("PlaceholderKeyword"), Id("a")>>),
       D(<<Kw("BlockKeyword"), Id("o")>>) \o BlockB \o D(<<Kw("EndBlockKeyword")>>)
         \o D(<<Kw("PlaceholderKeyword"), Id("b")>>),
       BlockB \o D(<<Kw("WhileKeyword"), Id("i"), Kw("LessThan"), Num(1)>>)
         \o D(<<Kw("PlaceholderKeyword"), Id("b")>>) \o Increment
         \o D(<<Kw("EndWhileKeyword")>>),
       D(<<Kw("PlaceholderKeyword")>>),
       D(<<Kw("ExportKeyword")>>) \o Html("z") >>

UnterminatedTemplates ==
    << D(<<Kw("ForKeyword"), Id("k"), Kw("InKeyword"), Num(2)>>) \o Html("a"),
       D(<<Kw("ForKeyword"), Id("k"), Kw("InKeyword"), Num(2)>>) \o Html("a") \o Html("b"),
       D(<<Kw("ForKeyword"), Id("k"), Kw("InKeyword"), Num(2)>>),
       D(<<Kw("WhileKeyword"), Id("f")>>) \o Html("a"),
       D(<<Kw("WhileKeyword"), Id("i"), Kw("LessThan"), Num(1)>>) \o Html("a") \o Increment,
       D(<<Kw("WhileKeyword")>>),
       Html("p") \o D(<<Kw("BlockKeyword"), Id("b")>>) \o Html("a") >>

DivisionTemplates ==
    << D(<<Kw("OutputKeyword")>> \o DivideByZero) \o Html("z"),
       Html("a") \o D(<<Kw("LetKeyword"), Id("r"), Kw("Assignment")>> \o ModuloByZero),
       D(<<Kw("IfKeyword")>> \o DivideByZero) \o Html("a") \o D(<<Kw("EndIfKeyword")>>)
         \o Html("z"),
       D(<<Kw("WhileKeyword")>> \o ModuloByZero) \o Html("a") \o D(<<Kw("EndWhileKeyword")>>)
         \o Html("z"),
       Html("a") \o D(<<Kw("ForKeyword"), Id("k"), Kw("InKeyword"), Num(1)>>)
         \o D(<<Kw("OutputKeyword")>> \o DivideByZero) \o D(<<Kw("EndForKeyword")>>),
       D(<<Kw("WhileKeyword"), Bool(TRUE)>>) \o D(<<Kw("OutputKeyword")>> \o ModuloByZero)
         \o D(<<Kw("EndWhileKeyword")>>) \o Html("z"),
       D(<<Kw("WhileKeyword"), Bool(TRUE)>>)
         \o D(<<Kw("ForKeyword"), Id("k"), Kw("InKeyword"), Num(1)>>)
         \o D(<<Kw("OutputKeyword")>> \o DivideByZero) \o D(<<Kw("EndForKeyword")>>)
         \o D(<<Kw("EndWhileKeyword")>>) \o Html("z"),
       D(<<Kw("OutputKeyword"), Num(4), Kw("Divide"), Num(2)>>) >>

UnboundTemplates ==
    << D(<<Kw("OutputKeyword"), Id("missing")>>) \o Html("z"),
       D(<<Id("missing")>>) \o Html("z"),
       D(<<Kw("OutputKeyword"), Id("x")>>) \o Html("z"),
       Html("a") \o D(<<Kw("OutputKeyword"), Id("missing")>>) >>

\* `output a op1 b op2 c` for every two operators of different precedence,
\* bare and with either pair of operands in parentheses.
PrecedenceOperators ==
    <<"LogicalOr", "LogicalAnd", "EqualsEquals", "LessThan", "Plus", "Multiply", "Exponent">>
PrecedenceOperands ==
    << <<ObjNumerical(1), ObjNumerical(2), ObjNumerical(3)>>,
       <<ObjNumerical(2), ObjNumerical(3), ObjNumerical(2)>>,
       <<ObjBoolean(FALSE), ObjBoolean(TRUE), ObjBoolean(TRUE)>> >>
Groupings == <<"none", "left", "right">>
PrecedenceCase(v, i, j, g) ==
    [a |-> PrecedenceOperands[v][1], op1 |-> PrecedenceOperators[i],
     b |-> PrecedenceOperands[v][2], op2 |-> PrecedenceOperators[j],
     c |-> PrecedenceOperands[v][3], paren |-> Groupings[g]]
PrecedenceCases ==
    LET nv == Len(PrecedenceOperands)
        no == Len(PrecedenceOperators)
        ng == Len(Groupings)
    IN [n \in 1..(nv * no * no * ng) |->
          PrecedenceCase(((n - 1) % nv) + 1,
                         (((n - 1) \div nv) % no) + 1,
                         (((n - 1) \div (nv * no)) % no) + 1,
                         (((n - 1) \div (nv * no * no)) % ng) + 1)]
PrecedenceTemplate(e) ==
    D(<<Kw("OutputKeyword")>>
      \o (IF e.paren = "left" THEN <<Kw("LeftParen")>> ELSE <<>>)
      \o <<Object(e.a), Kw(e.op1)>>
      \o (IF e.paren = "right" THEN <<Kw("LeftParen")>> ELSE <<>>)
      \o <<Object(e.b)>>
      \o (IF e.paren = "left" THEN <<Kw("RightParen")>> ELSE <<>>)
      \o <<Kw(e.op2), Object(e.c)>>
      \o (IF e.paren = "right" THEN <<Kw("RightParen")>> ELSE <<>>))
PrecedenceTemplates == [n \in DOMAIN PrecedenceCases |-> PrecedenceTemplate(PrecedenceCases[n])]
OutputSource ==
    <<"a", "b", "c", " ", "-", "[", " ", "o", "u", "t", "p", "u", "t", " ", "1", "+", "2", "*",
      "3", " ", "]", "-", " ", "d", "e", "f">>

\* The template files: two that insert each other, one that extends itself,
\* a layout and a page that extends it.
InsertOf(name, text) == D(<<Kw("InsertKeyword"), Text(name)>>) \o Html(text)
Layout ==
    Html("<h>") \o D(<<Kw("BlockKeyword"), Id("header")>>) \o Html("H")
      \o D(<<Kw("EndBlockKeyword")>>) \o Html("<m>")
      \o D(<<Kw("BlockKeyword"), Id("content")>>) \o Html("P")
      \o D(<<Kw("EndBlockKeyword")>>) \o Html("<f>")
Page(parent) ==
    D(<<Kw("TemplateKeyword"), Text(parent)>>) \o D(<<Kw("BlockKeyword"), Id("content")>>)
      \o Html("C") \o D(<<Kw("EndBlockKeyword")>>)
File(name, tokens) == [name |-> name, tokens |-> tokens]

RootFiles ==
    << File("A", InsertOf("B", "a")), File("B", InsertOf("A", "b")),
       File("x", D(<<Kw("TemplateKeyword"), Text("x")>>) \o Html("q")),
       File("base", Layout), File("home", Page("base")) >>
SubdirFiles ==
    << File("t/A", InsertOf("B", "a")), File("t/B", InsertOf("A", "b")),
       File("t/x", D(<<Kw("TemplateKeyword"), Text("x")>>) \o Html("q")),
       File("t/base", Layout), File("t/home", Page("base")) >>
AbsoluteFiles ==
    << File("A", InsertOf("/B", "a")), File("B", InsertOf("/A", "b")),
       File("x", D(<<Kw("TemplateKeyword"), Text("/x")>>) \o Html("q")),
       File("base", Layout), File("home", Page("/base")) >>

\* A library file with `export` and a page that inserts it; a page with
\* three sibling inserts of a leaf; a layout with a block nested in a block
\* and children that override the nested block, the outer one, the last one.
Block(name, body) == D(<<Kw("BlockKeyword"), Id(name)>>) \o body \o D(<<Kw("EndBlockKeyword")>>)
NestedLayout ==
    Html("<") \o Block("o", Html("O1") \o Block("i", Html("I")) \o Html("O2")) \o Html(">")
      \o Block("p", Html("P"))
Child(parent, blocks) == D(<<Kw("TemplateKeyword"), Text(parent)>>) \o blocks
LibraryFiles ==
    << File("t/L", D(<<Kw("ExportKeyword")>>) \o Html("L")),
       File("t/P", Html("P") \o InsertOf("L", "Q")),
       File("t/E", Html("e")),
       File("t/S", InsertOf("E", "|") \o InsertOf("E", "|") \o InsertOf("E", ".")),
       File("t/N", NestedLayout),
       File("t/K", Child("N", Block("i", Html("CI")))),
       File("t/O", Child("N", Block("o", Html("CO")))),
       File("t/J", Child("N", Html("junk") \o Block("p", Html("CP")) \o Block("z", Html("Z")))) >>

\* `name[idx] = v` and `name.prop = v` as a statement, followed by text or
\* as the last statement of the template.
AssignTargets ==
    << [name |-> "xs", access |-> "index", at |-> ObjNumerical(0)],
       [name |-> "xs", access |-> "index", at |-> ObjNumerical(1)],
       [name |-> "d", access |-> "index", at |-> ObjStr("a")],
       [name |-> "d", access |-> "prop", at |-> ObjStr("b")] >>
AssignCases ==
    [n \in 1..(2 * Len(AssignTargets)) |->
       [target |-> AssignTargets[((n - 1) % Len(AssignTargets)) + 1],
        v |-> ObjNumerical(9),
        last |-> n > Len(AssignTargets)]]
AssignTemplate(e) ==
    D(<<Id(e.target.name)>>
      \o (IF e.target.access = "index"
          THEN <<Kw("LeftSquareBracket"), Object(e.target.at), Kw("RightSquareBracket")>>
          ELSE <<Kw("Dot"), Id(e.target.at.s)>>)
      \o <<Kw("Assignment"), Object(e.v)>>)
      \o (IF e.last THEN <<>> ELSE Html("z"))
AssignTemplates == [n \in DOMAIN AssignCases |-> AssignTemplate(AssignCases[n])]

\* Loops whose condition is several tokens long: `let n = 2`, then
\* `while i < n` around text and `i = i + 1`; the same with `i < 2`.
ConditionTemplates ==
    << D(<<Kw("LetKeyword"), Id("n"), Kw("Assignment"), Num(2)>>)
         \o D(<<Kw("WhileKeyword"), Id("i"), Kw("LessThan"), Id("n")>>) \o Html("a")
         \o Increment \o D(<<Kw("EndWhileKeyword")>>) \o Html("z"),
       D(<<Kw("WhileKeyword"), Id("i"), Kw("LessThan"), Num(2)>>) \o Html("a")
         \o Increment \o D(<<Kw("EndWhileKeyword")>>) \o Html("z"),
       D(<<Kw("WhileKeyword"), Id("t"), Kw("LogicalAnd"), Id("i"), Kw("LessThan"), Num(1)>>)
         \o Html("a") \o Increment \o D(<<Kw("EndWhileKeyword")>>) \o Html("z") >>

\* `for it in <list>` with `output it` and a statement that reassigns,
\* shortens or deletes the list in the body, then a tail that shows what
\* is left of it; tailOut is what the tail renders.
ListLoopData == StrInsert(Bindings, "items", ObjList(<<ObjStr("x"), ObjStr("y")>>))
ListLoopCases ==
    << [coll |-> "items", mutate |-> <<>>, tail |-> <<>>, tailOut |-> <<>>],
       [coll |-> "xs",
        mutate |-> D(<<Kw("DelKeyword"), Id("xs"), Kw("LeftSquareBracket"), Num(0),
                       Kw("RightSquareBracket")>>),
        tail |-> D(<<Kw("OutputKeyword"), Id("xs"), Kw("Dot"), Id("len")>>),
        tailOut |-> <<"0">>],
       [coll |-> "xs", mutate |-> D(<<Kw("DelKeyword"), Id("xs")>>),
        tail |-> Html("z"), tailOut |-> <<"z">>],
       [coll |-> "xs", mutate |-> D(<<Kw("LetKeyword"), Id("xs"), Kw("Assignment"), Num(5)>>),
        tail |-> D(<<Kw("OutputKeyword"), Id("xs")>>), tailOut |-> <<"5">>],
       [coll |-> "items", mutate |-> D(<<Id("items"), Kw("Assignment"), Id("x")>>),
        tail |-> D(<<Kw("OutputKeyword"), Id("items")>>), tailOut |-> <<"hi">>] >>
ListLoopBody(e) == D(<<Kw("OutputKeyword"), Id("it")>>) \o e.mutate
ListLoopTemplate(e) ==
    D(<<Kw("ForKeyword"), Id("it"), Kw("InKeyword"), Id(e.coll)>>) \o ListLoopBody(e)
      \o D(<<Kw("EndForKeyword")>>) \o e.tail
ListLoopTemplates == [n \in DOMAIN ListLoopCases |-> ListLoopTemplate(ListLoopCases[n])]

\* `if c1` A `if c2` B `endif` `let i = 5` C `endif` `output i` D, for every
\* two conditions of IfConditions; holds tells whether a condition is truthy
\* under Bindings.
IfConditions ==
    << [tokens |-> <<Id("t")>>, holds |-> TRUE],
       [tokens |-> <<Id("f")>>, holds |-> FALSE],
       [tokens |-> <<Id("i")>>, holds |-> FALSE],
       [tokens |-> <<Id("x")>>, holds |-> TRUE],
       [tokens |-> <<Id("i"), Kw("LessThan"), Num(1)>>, holds |-> TRUE],
       [tokens |-> <<Id("i"), Kw("EqualsEquals"), Num(1)>>, holds |-> FALSE],
       [tokens |-> <<Id("missing")>>, holds |-> FALSE] >>
IfCases ==
    [n \in 1..(Len(IfConditions) * Len(IfConditions)) |->
       [outer |-> IfConditions[((n - 1) % Len(IfConditions)) + 1],
        inner |-> IfConditions[((n - 1) \div Len(IfConditions)) + 1]]]
IfTemplate(e) ==
    D(<<Kw("IfKeyword")>> \o e.outer.tokens) \o Html("A")
      \o D(<<Kw("IfKeyword")>> \o e.inner.tokens) \o Html("B") \o D(<<Kw("EndIfKeyword")>>)
      \o D(<<Kw("LetKeyword"), Id("i"), Kw("Assignment"), Num(5)>>) \o Html("C")
      \o D(<<Kw("EndIfKeyword")>>) \o D(<<Kw("OutputKeyword"), Id("i")>>) \o Html("D")
IfTemplates == [n \in DOMAIN IfCases |-> IfTemplate(IfCases[n])]

\* `output name<chain>` for chains of `[index]` and `.property` accesses
\* over a list of lists `a` and a dictionary `d` that holds a list, a
\* dictionary and a number.
ChainData ==
    LET pair(x, y) == ObjList(<<ObjNumerical(x), ObjNumerical(y)>>)
        inner == ObjDictionary([k \in {"k2"} |-> ObjNumerical(5)])
    IN StrInsert(StrInsert(Bindings, "a", ObjList(<<pair(1, 2), pair(3, 4)>>)), "d",
                 ObjDictionary([k \in {"k", "k1", "n"} |->
                    CASE k = "k" -> pair(7, 8) [] k = "k1" -> inner [] OTHER -> ObjNumerical(1)]))
Index(at) == [kind |-> "index", at |-> at]
Prop(name) == [kind |-> "prop", at |-> ObjStr(name)]
ChainCases ==
    << [name |-> "a", chain |-> <<Index(ObjNumerical(0)), Index(ObjNumerical(1))>>],
       [name |-> "d", chain |-> <<Prop("k"), Index(ObjNumerical(0))>>],
       [name |-> "d", chain |-> <<Prop("k1"), Prop("k2")>>],
       [name |-> "d", chain |-> <<Index(ObjStr("k")), Prop("len")>>],
       [name |-> "d", chain |-> <<Prop("n")>>],
       [name |-> "d", chain |-> <<Index(ObjStr("n"))>>],
       [name |-> "a", chain |-> <<Index(ObjNumerical(1)), Prop("len")>>],
       [name |-> "d", chain |-> <<Index(ObjStr("k1")), Index(ObjStr("k2"))>>],
       [name |-> "d", chain |-> <<Index(ObjStr("k")), Index(ObjNumerical(1))>>],
       [name |-> "a", chain |-> <<Prop("len")>>],
       [name |-> "d", chain |-> <<Prop("k1"), Index(ObjStr("k2"))>>],
       [name |-> "d", chain |-> <<Index(ObjStr("k1")), Prop("k2")>>],
       [name |-> "d", chain |-> <<Prop("k"), Prop("len")>>] >>
RECURSIVE ChainTokens(_)
ChainTokens(chain) ==
    IF chain = <<>> THEN <<>>
    ELSE (IF Head(chain).kind = "index"
          THEN <<Kw("LeftSquareBracket"), Object(Head(chain).at), Kw("RightSquareBracket")>>
          ELSE <<Kw("Dot"), Id(Head(chain).at.s)>>) \o ChainTokens(Tail(chain))
ChainTemplate(e) == D(<<Kw("OutputKeyword"), Id(e.name)>> \o ChainTokens(e.chain)) \o Html("z")
ChainTemplates == [n \in DOMAIN ChainCases |-> ChainTemplate(ChainCases[n])]

\* An access that misses (index 9 of xs, key q of d) as a bare statement,
\* in `output` and in `let`, each followed by text.
MissAccesses ==
    << <<Id("xs"), Kw("LeftSquareBracket"), Num(9), Kw("RightSquareBracket")>>,
       <<Id("d"), Kw("LeftSquareBracket"), Text("q"), Kw("RightSquareBracket")>>,
       <<Id("d"), Kw("Dot"), Id("q")>> >>
MissStatements == <<"bare", "output", "let">>
MissCases ==
    [n \in 1..(Len(MissAccesses) * Len(MissStatements)) |->
       [access |-> MissAccesses[((n - 1) % Len(MissAccesses)) + 1],
        statement |-> MissStatements[((n - 1) \div Len(MissAccesses)) + 1]]]
MissTemplate(e) ==
    D((CASE e.statement = "output" -> <<Kw("OutputKeyword")>>
         [] e.statement = "let" -> <<Kw("LetKeyword"), Id("r"), Kw("Assignment")>>
         [] OTHER -> <<>>) \o e.access) \o Html("z")
MissTemplates == [n \in DOMAIN MissCases |-> MissTemplate(MissCases[n])]

\* `name = expr` as a statement, then `output name`: for names bound before
\* the statement (i, x) and names that are not (y); value is what expr
\* evaluates to under Bindings.
BareAssignCases ==
    << [name |-> "i", expr |-> <<Num(5)>>, value |-> ObjNumerical(5)],
       [name |-> "x", expr |-> <<Id("i"), Kw("Plus"), Num(1)>>, value |-> ObjNumerical(1)],
       [name |-> "i", expr |-> <<Id("x")>>, value |-> ObjStr("hi")],
       [name |-> "y", expr |-> <<Num(5)>>, value |-> ObjNumerical(5)],
       [name |-> "y", expr |-> <<Id("x")>>, value |-> ObjStr("hi")],
       [name |-> "y", expr |-> <<Id("i"), Kw("Plus"), Num(1)>>, value |-> ObjNumerical(1)] >>
BareAssignTemplate(e) ==
    D(<<Id(e.name), Kw("Assignment")>> \o e.expr) \o D(<<Kw("OutputKeyword"), Id(e.name)>>)
BareAssignTemplates == [n \in DOMAIN BareAssignCases |-> BareAssignTemplate(BareAssignCases[n])]

Call(entry, name, tokens) ==
    [entry |-> entry, name |-> name, tokens |-> tokens, data |-> Bindings]
Manager(files, depth, cache) ==
    [files |-> files, max_recursion_depth |-> depth, cache_enabled |-> cache,
     template_cache |-> NoBlocks]
Scenario(call, mgr) == [call |-> call, manager |-> mgr]

DepthChoices == [i \in 1..(MaxDepth + 1) |-> i - 1]

\* Every template above through compile and through render_string.
Direct(templates) ==
    [i \in 1..(2 * Len(templates)) |->
       IF i <= Len(templates)
       THEN Scenario(Call("compile", "", templates[i]), Manager(RootFiles, DefaultMaxRecursionDepth, TRUE))
       ELSE Scenario(Call("render_string", "", templates[i - Len(templates)]),
                     Manager(RootFiles, DefaultMaxRecursionDepth, TRUE))]

\* Every template through compile and through render_string, with bindings data.
DirectWith(templates, data) ==
    [i \in 1..(2 * Len(templates)) |->
       Scenario([Call(IF i <= Len(templates) THEN "compile" ELSE "render_string", "",
                      templates[((i - 1) % Len(templates)) + 1]) EXCEPT !.data = data],
                Manager(RootFiles, DefaultMaxRecursionDepth, TRUE))]

\* render(name) for every name and every recursion limit of depths.
ByName(files, names, depths) ==
    [i \in 1..(Len(names) * Len(depths)) |->
       Scenario(Call("render", names[((i - 1) % Len(names)) + 1], <<>>),
                Manager(files, depths[((i - 1) \div Len(names)) + 1], TRUE))]

Scenarios ==
    Direct(ShortCircuitTemplates) \o Direct(WhileTemplates) \o Direct(ForTemplates)
      \o Direct(BlockTemplates) \o Direct(UnterminatedTemplates)
      \o Direct(DivisionTemplates) \o Direct(UnboundTemplates)
      \o Direct(PrecedenceTemplates) \o Direct(<<tokenize(OutputSource)>>)
      \o Direct(AssignTemplates) \o Direct(ConditionTemplates)
      \o DirectWith(ListLoopTemplates, ListLoopData) \o Direct(IfTemplates)
      \o DirectWith(ChainTemplates, ChainData) \o Direct(MissTemplates)
      \o Direct(BareAssignTemplates)
      \o ByName(RootFiles, <<"A", "x", "home", "base", "B">>, DepthChoices)
      \o ByName(SubdirFiles, <<"t/A", "t/x", "t/home", "t/base", "home">>, DepthChoices)
      \o ByName(AbsoluteFiles, <<"A", "x", "home">>, DepthChoices)
      \o ByName(RootFiles, <<"home", "base">>, <<DefaultMaxRecursionDepth>>)
      \o ByName(SubdirFiles, <<"t/home", "t/base">>, <<DefaultMaxRecursionDepth>>)
      \o ByName(AbsoluteFiles, <<"home">>, <<DefaultMaxRecursionDepth>>)
      \o ByName(LibraryFiles, <<"t/L", "t/P", "t/S", "t/N", "t/K", "t/O", "t/J">>,
                DepthChoices \o <<DefaultMaxRecursionDepth>>)
      \o << Scenario(Call("render_string", "", InsertOf("A", "s")),
                     Manager(RootFiles, DefaultMaxRecursionDepth, FALSE)),
            Scenario(Call("render_string", "", InsertOf("/A", "s")),
                     Manager(AbsoluteFiles, MaxDepth, FALSE)),
            Scenario(Call("render", "t/u", <<>>),
                     Manager(SubdirFiles \o <<File("t/u", Html("p") \o D(<<Kw("BlockKeyword"), Id("b")>>))>>,
                             DefaultMaxRecursionDepth, FALSE)) >>

Init ==
    /\ \E i \in 1..Len(Scenarios) :
          /\ scenario = Scenarios[i].call
          /\ manager = Scenarios[i].manager
    /\ phase = "start"
    /\ stack = <<>>
    /\ result = [kind |-> "none", out |-> <<>>, err |-> "", expansions |-> 0]

Next ==
    \/ Render \/ RenderString \/ CompileTokens \/ Compile
    \/ ExecHtml \/ ExecPlaceholder \/ ExecBlockKeyword \/ ExecEndBlock
    \/ ExecLet \/ ExecIf \/ ExecFor \/ ExecWhile \/ ExecOutput \/ ExecDel
    \/ ExecIdentifier \/ ExecEOS \/ ExecOther
    \/ ReturnPlaceholder \/ ReturnFor \/ ReturnWhile
    \/ Finish

Spec == Init /\ [][Next]_vars

(***************************************************************************)
(* Properties.  Positions are 0-based as in the program.                   *)
(***************************************************************************)
Frames == DOMAIN stack
Chunks(out) == {out[j] : j \in DOMAIN out}
Occurrences(out, text) == Cardinality({j \in DOMAIN out : out[j] = text})
StatementDispatched(f) == f.ev.kind \notin {"", "return"}

\* The end of the expression whose right operand starts at p: its
\* EndOfStatement, or the end of the tokens.
ExpressionEnd(tokens, p) == NextAt(tokens, p, {"EndOfStatement"})

\* C1: once `&&` met a falsy left operand or `||` a truthy one, no token of
\* the right operand is dispatched as a statement or evaluated: no compiler
\* dispatches a statement at a position between the start of a right operand
\* it skipped and the end of that expression.
C1_ShortCircuitSkipsRight ==
    \A i \in Frames :
       \A p \in stack[i].c.sc :
          ~(/\ StatementDispatched(stack[i])
            /\ stack[i].ev.at >= p
            /\ stack[i].ev.at < ExpressionEnd(stack[i].c.tokens, p))

WhileLimitDiagnostic ==
    "<!-- While loop exceeded maximum iterations - possible infinite loop -->"

CyclicNames == {"A", "B", "x", "t/A", "t/B", "t/x"}
NamedFileExists == \E i \in DOMAIN manager.files : manager.files[i].name = scenario.name

\* C3: render of a template whose references form a cycle returns Ok after
\* at most max_recursion_depth expansions beyond the first, and the output
\* carries the 'Maximum recursion depth exceeded' diagnostic.
C3_CycleGuard ==
    (phase = "done" /\ scenario.entry = "render" /\ scenario.name \in CyclicNames
       /\ NamedFileExists) =>
       /\ result.kind = "ok"
       /\ result.expansions <= manager.max_recursion_depth + 1
       /\ MaxDepthDiagnostic \in Chunks(result.out)

\* C4: render of the page that extends the layout and overrides `content`
\* only returns Ok with the layout, the header region filled by the layout
\* and the content region by the page, in the layout's order.
C4_InheritanceRendersLayout ==
    (phase = "done" /\ scenario.entry = "render" /\ scenario.name \in {"home", "t/home"}
       /\ NamedFileExists /\ manager.max_recursion_depth >= 1) =>
       /\ result.kind = "ok"
       /\ result.out = <<"<h>", "H", "<m>", "C", "<f>">>

\* The table that results from entry by the writes in touched: the last
\* value written to each name, without the names deleted last.
ApplyTouched(entry, touched) ==
    LET deleted == {k \in DOMAIN touched : touched[k].op = "del"}
        written == {k \in DOMAIN touched : touched[k].op = "set"}
    IN [k \in ((DOMAIN entry) \ deleted) \cup written |->
          IF k \in written THEN touched[k].v ELSE entry[k]]

\* C5: a nested compiler (a loop body, a block run by placeholder) starts
\* from a copy of the enclosing table, which stays as it is while the nested
\* compiler runs; when the nested compiler returned Ok the enclosing table is
\* the entry snapshot with the nested compiler's last write of each name and
\* without the names it deleted, every other binding unchanged (a `for` that
\* goes on has bound its variable to the next item since).
C5_SnapshotAndMerge ==
    \A i \in Frames :
       LET f == stack[i] IN
       /\ i < Len(stack) => stack[i + 1].entry = f.c.data
       /\ (f.ev.kind = "return" /\ f.ev.note.how # "error") =>
            LET merged == ApplyTouched(f.ev.ret.entry, f.ev.ret.touched) IN
            IF f.h.kind = "for"
            THEN /\ f.h.loop_var \in DOMAIN f.c.data
                 /\ f.c.data = StrInsert(merged, f.h.loop_var, f.c.data[f.h.loop_var])
            ELSE f.c.data = merged

\* A nested compiler that both wrote and deleted names has returned.
C5_NestedWritesMerged ==
    \E i \in Frames :
       LET f == stack[i] IN
       /\ f.ev.kind = "return"
       /\ f.h.kind = "none"
       /\ \E k \in DOMAIN f.ev.ret.touched : f.ev.ret.touched[k].op = "del"
       /\ \E k \in DOMAIN f.ev.ret.touched : f.ev.ret.touched[k].op = "set"
       /\ f.c.data # f.ev.ret.entry

\* The positions between a block header and its matching endblock.
BlockInterior(tokens) ==
    UNION { LET start == SkipEos(tokens, b + 2)
                sk == SkipBalanced(tokens, start, 1, "BlockKeyword", "EndBlockKeyword")
            IN IF sk.depth = 0 THEN start..(sk.pos - 2) ELSE {}
            : b \in {j \in 0..(Len(tokens) - 1) :
                       IsKw(tokens, j, "BlockKeyword") /\ IsKw(tokens, j + 1, "Identifier")} }

\* C6: statement dispatch skips a block span: no compiler dispatches a token
\* that lies between a block header of its tokens and the matching endblock.
C6_BlockSpanSkipped ==
    \A i \in Frames :
       StatementDispatched(stack[i]) =>
          stack[i].ev.at \notin BlockInterior(stack[i].c.tokens)

\* C7: wherever a placeholder is executed, `Block 'name' not defined` is
\* written only when the compiled token sequence defines no block `name`.
C7_PlaceholderFindsBlock ==
    \A i \in Frames :
       LET f == stack[i] IN
       (/\ f.ev.kind = "PlaceholderKeyword"
        /\ f.h.kind = "none"
        /\ IsKw(f.c.tokens, f.ev.at + 1, "Identifier")) =>
          TokAt(f.c.tokens, f.ev.at + 1).name \notin DOMAIN stack[1].c.blocks

\* The scenarios whose template leaves a for, a while or a block open.
Unterminated ==
    \/ \E k \in DOMAIN UnterminatedTemplates : scenario.tokens = UnterminatedTemplates[k]
    \/ scenario.entry = "render" /\ scenario.name = "t/u"

\* C8: compile, render and render_string of a template with an unterminated
\* for, while or block return an error.
C8_UnterminatedIsError ==
    (phase = "done" /\ Unterminated) => result.kind = "err"

\* The scenarios whose template divides, or takes a remainder, by zero.
DividesByZero ==
    \E k \in 1..(Len(DivisionTemplates) - 1) : scenario.tokens = DivisionTemplates[k]

\* C9: a render that meets a division or a modulo by zero returns an error,
\* whatever the statement it is met in, and hands no output to the caller.
C9_DivisionByZeroIsError ==
    (phase = "done" /\ DividesByZero) => (result.kind = "err" /\ result.out = <<>>)

HtmlTexts(tokens) ==
    {tokens[j].text : j \in {m \in DOMAIN tokens : tokens[m].k = "HtmlContent"}}

\* C10: the render of `output missing`, missing unbound, returns Ok and its
\* output carries a diagnostic for it: something the template's literal text
\* does not account for.
C10_UnboundOutputDiagnosed ==
    (phase = "done" /\ scenario.tokens \in {UnboundTemplates[1], UnboundTemplates[4]}) =>
       /\ result.kind = "ok"
       /\ \E chunk \in Chunks(result.out) : chunk \notin HtmlTexts(scenario.tokens)

(***************************************************************************)
(* get_full_dir on its own: every reference of PathTable resolved from     *)
(* every referencing name of PathTable.                                    *)
(***************************************************************************)
NoResult == [kind |-> "none", out |-> <<>>, err |-> "", expansions |-> 0]

ResolveInit ==
    /\ \E i, j \in 1..Len(PathTable) :
          scenario = [entry |-> "get_full_dir", path |-> Concat(PathTable[i]),
                      ori |-> Concat(PathTable[j])]
    /\ manager = Manager(<<>>, DefaultMaxRecursionDepth, TRUE)
    /\ phase = "start"
    /\ stack = <<>>
    /\ result = NoResult

Resolve ==
    /\ phase = "start"
    /\ scenario.entry = "get_full_dir"
    /\ phase' = "done"
    /\ result' = [result EXCEPT !.kind = "ok",
                                !.out = <<get_full_dir(scenario.path, scenario.ori)>>]
    /\ UNCHANGED <<scenario, manager, stack>>

ResolveSpec == ResolveInit /\ [][Resolve]_vars

\* The directory part of a name: what stands before its last separator,
\* nothing when it has none.
DirectoryPart(o) == IF rfind(o, "/") > 0 THEN SubSeq(o, 1, rfind(o, "/") - 1) ELSE <<>>

\* C11: a relative path referenced from ori resolves to the directory part
\* of ori joined with path, and to path itself when ori has no directory
\* part (a root-level template, or the empty name of render_string).
C11_RelativeToReferencingTemplate ==
    (phase = "done" /\ scenario.path # "" /\ ~StartsWith(Chars(scenario.path), "/")) =>
       result.out[1] = (IF DirectoryPart(Chars(scenario.ori)) = <<>>
                        THEN scenario.path
                        ELSE Concat(DirectoryPart(Chars(scenario.ori)) \o <<"/">>)
                               \o scenario.path)

(***************************************************************************)
(* The template cache under two threads.  Each thread makes one call,      *)
(* load_tokens(name) or load_into_cache(name); stack holds the two calls   *)
(* in progress, manager the TemplateManager with the state of the RwLock   *)
(* around template_cache (the threads that hold a read guard, the thread   *)
(* that holds the write guard, 0 for none).  A guard is taken in one step  *)
(* and dropped in a later one; a thread waits while the lock is not free   *)
(* for it.  before and inserted are history fields: the cache when the     *)
(* thread took the write guard, and whether it ever did.                   *)
(***************************************************************************)
Threads == {1, 2}
CacheNames == {"p", "q"}
CachedFiles == << <<File("p", Html("P")), File("q", Html("Q"))>>, <<File("q", Html("Q"))>> >>
InitialCaches ==
    << NoBlocks, StrInsert(NoBlocks, "p", Html("old")), StrInsert(NoBlocks, "q", Html("Q")) >>

ThreadCall(op, name) ==
    [op |-> op, name |-> name, pc |-> "call", tokens |-> <<>>,
     ret |-> [kind |-> "none", tokens |-> <<>>, err |-> ""],
     before |-> NoBlocks, inserted |-> FALSE]

CacheInit ==
    /\ \E ops \in [Threads -> {"load_tokens", "load_into_cache"}],
          names \in [Threads -> CacheNames],
          f \in DOMAIN CachedFiles, c \in DOMAIN InitialCaches, enabled \in BOOLEAN :
          /\ scenario = [entry |-> "cache", ops |-> ops, names |-> names,
                         template_cache |-> InitialCaches[c]]
          /\ manager = [files |-> CachedFiles[f], max_recursion_depth |-> DefaultMaxRecursionDepth,
                        cache_enabled |-> enabled, template_cache |-> InitialCaches[c],
                        lock |-> [readers |-> {}, writer |-> 0]]
          /\ stack = [t \in Threads |-> ThreadCall(ops[t], names[t])]
    /\ phase = "run"
    /\ result = NoResult

ThreadStep(t, th, m) ==
    /\ stack' = [stack EXCEPT ![t] = th]
    /\ manager' = m
    /\ UNCHANGED <<scenario, phase, result>>

\* self.template_cache.read().unwrap() in get_from_cache
AcquireRead(t) ==
    /\ stack[t].pc = "call" /\ stack[t].op = "load_tokens"
    /\ manager.cache_enabled
    /\ manager.lock.writer = 0
    /\ ThreadStep(t, [stack[t] EXCEPT !.pc = "reading"],
                  [manager EXCEPT !.lock.readers = @ \cup {t}])

\* cache.get(template_name).cloned(), the read guard dropped on return
CacheGet(t) ==
    /\ stack[t].pc = "reading"
    /\ LET got == get_from_cache(manager, stack[t].name) IN
       ThreadStep(t,
                  IF got.some
                  THEN [stack[t] EXCEPT !.pc = "done",
                                        !.ret = [kind |-> "ok", tokens |-> got.tokens, err |-> ""]]
                  ELSE [stack[t] EXCEPT !.pc = "miss"],
                  [manager EXCEPT !.lock.readers = @ \ {t}])

\* let tokens = self.read_template_token(template_name)?
ReadFile(t) ==
    /\ \/ stack[t].pc = "miss"
       \/ stack[t].pc = "call" /\ stack[t].op = "load_tokens" /\ ~manager.cache_enabled
    /\ LET r == read_template_token(manager, stack[t].name) IN
       ThreadStep(t,
                  IF r.ok THEN [stack[t] EXCEPT !.pc = "loaded", !.tokens = r.tokens]
                  ELSE [stack[t] EXCEPT !.pc = "done",
                                        !.ret = [kind |-> "err", tokens |-> <<>>, err |-> r.err]],
                  manager)

EntersLoadIntoCache(t) ==
    \/ stack[t].pc = "loaded"
    \/ stack[t].pc = "call" /\ stack[t].op = "load_into_cache"

\* self.template_cache.write().unwrap() in load_into_cache
AcquireWrite(t) ==
    /\ EntersLoadIntoCache(t)
    /\ manager.cache_enabled
    /\ manager.lock.writer = 0 /\ manager.lock.readers = {}
    /\ ThreadStep(t, [stack[t] EXCEPT !.pc = "writing", !.before = manager.template_cache,
                                      !.inserted = TRUE],
                  [manager EXCEPT !.lock.writer = t])

\* read_template_token and cache.insert under the write guard
Insert(t) ==
    /\ stack[t].pc = "writing"
    /\ ThreadStep(t, [stack[t] EXCEPT !.pc = "inserted"],
                  load_into_cache(manager, stack[t].name))

\* the write guard is dropped at the end of its block
ReleaseWrite(t) ==
    /\ stack[t].pc = "inserted"
    /\ ThreadStep(t, [stack[t] EXCEPT !.pc = "unlocked"], [manager EXCEPT !.lock.writer = 0])

\* Ok(tokens) of load_tokens, the return of load_into_cache
Return(t) ==
    /\ \/ stack[t].pc = "unlocked"
       \/ EntersLoadIntoCache(t) /\ ~manager.cache_enabled
    /\ ThreadStep(t, [stack[t] EXCEPT !.pc = "done",
                        !.ret = [kind |-> "ok", tokens |-> stack[t].tokens, err |-> ""]],
                  manager)

CacheNext ==
    \E t \in Threads :
       \/ AcquireRead(t) \/ CacheGet(t) \/ ReadFile(t) \/ AcquireWrite(t)
       \/ Insert(t) \/ ReleaseWrite(t) \/ Return(t)

CacheSpec == CacheInit /\ [][CacheNext]_vars

CacheFairSpec == CacheSpec /\ WF_vars(CacheNext)

SourceTokens(name) == read_template_token(manager, name).tokens
AllReturned == \A t \in Threads : stack[t].pc = "done"

\* Two load_tokens calls for one name whose file can be read and which the
\* cache, enabled, does not hold at the start.
CacheMissRace ==
    /\ scenario.entry = "cache"
    /\ \A t \in Threads : scenario.ops[t] = "load_tokens"
    /\ scenario.names[1] = scenario.names[2]
    /\ manager.cache_enabled
    /\ read_template_token(manager, scenario.names[1]).ok
    /\ scenario.names[1] \notin DOMAIN scenario.template_cache

RaceOutcome ==
    CacheMissRace =>
       /\ \A t \in Threads :
             stack[t].pc = "done" =>
                stack[t].ret = [kind |-> "ok", tokens |-> SourceTokens(stack[t].name), err |-> ""]
       /\ AllReturned =>
             manager.template_cache =
                StrInsert(scenario.template_cache, scenario.names[1],
                          SourceTokens(scenario.names[1]))
       /\ ~AllReturned => ENABLED CacheNext

\* C12: two concurrent load_tokens calls for the same uncached name, the
\* source unchanged: under every interleaving of the lock sections both
\* calls return tokenize(source), the cache ends with the one entry for the
\* name equal to tokenize(source), every state before the end has a step
\* some thread can take, and both calls return in the end.
C12_CacheMissRace == [](RaceOutcome) /\ (CacheMissRace ~> AllReturned)

\* Both threads missed, and both inserted under the write lock.
C12_BothInserted == CacheMissRace /\ AllReturned /\ \A t \in Threads : stack[t].inserted

HoldsWriteLock(t) == stack[t].pc \in {"writing", "inserted"}

\* C13: load_into_cache(name), caching enabled, holds the write lock alone;
\* when the source can be read the entry of `name` is tokenize(source),
\* whatever it was, and no other entry changed; when it cannot be read the
\* cache is as it was when the lock was taken, an entry of `name` included.
C13_LoadIntoCache ==
    (scenario.entry = "cache") =>
       \A t \in Threads :
          /\ HoldsWriteLock(t) =>
                /\ manager.lock = [readers |-> {}, writer |-> t]
                /\ \A u \in Threads \ {t} : ~HoldsWriteLock(u)
          /\ stack[t].pc = "inserted" =>
                manager.template_cache =
                   (IF read_template_token(manager, stack[t].name).ok
                    THEN StrInsert(stack[t].before, stack[t].name, SourceTokens(stack[t].name))
                    ELSE stack[t].before)

\* An entry of the name kept by a call that found its file unreadable.
C13_ReplacedAndKept ==
    /\ scenario.entry = "cache"
    /\ \E t \in Threads :
          /\ stack[t].pc = "done" /\ stack[t].inserted
          /\ stack[t].name \in DOMAIN stack[t].before
          /\ ~read_template_token(manager, stack[t].name).ok
          /\ manager.template_cache = stack[t].before

\* The tiers of the precedence order: or < and < equality < relational <
\* additive < multiplicative < exponent.
Tier(op) ==
    CASE op = "LogicalOr" -> 1
      [] op = "LogicalAnd" -> 2
      [] op \in {"EqualsEquals", "NotEquals"} -> 3
      [] op \in {"LessThan", "LessThanEquals", "GreaterThan", "GreaterThanEquals"} -> 4
      [] op \in {"Plus", "Minus"} -> 5
      [] op \in {"Multiply", "Divide", "Modulus"} -> 6
      [] OTHER -> 7

\* One operator applied to two operands that are values or failures.
Applied(l, op, r) ==
    IF ~l.ok THEN l
    ELSE IF op = "LogicalAnd" /\ ~is_truthy(l.v) THEN [ok |-> TRUE, v |-> ObjBoolean(FALSE)]
    ELSE IF op = "LogicalOr" /\ is_truthy(l.v) THEN [ok |-> TRUE, v |-> ObjBoolean(TRUE)]
    ELSE IF ~r.ok THEN r
    ELSE LET value(e) == [ok |-> e.ok, v |-> e.v]
         IN value(evaluate_expression(NewCompiler(<<Object(l.v), Kw(op), Object(r.v)>>, EmptyMap)))
Operand(v) == [ok |-> TRUE, v |-> v]

\* The value of `a op1 b op2 c` with the grouping its parentheses or, without
\* them, the precedence order gives.
Grouped(e) ==
    IF e.paren = "right" \/ (e.paren = "none" /\ Tier(e.op2) > Tier(e.op1))
    THEN Applied(Operand(e.a), e.op1, Applied(Operand(e.b), e.op2, Operand(e.c)))
    ELSE Applied(Applied(Operand(e.a), e.op1, Operand(e.b)), e.op2, Operand(e.c))

Rendered(e) ==
    IF Grouped(e).ok
    THEN result.kind = "ok" /\ result.out = <<interal_value_as_string(Grouped(e).v)>>
    ELSE result.kind = "err"

\* C14: an operator of higher precedence binds tighter than a neighbouring
\* one of lower precedence, and a parenthesised sub-expression is evaluated
\* as a unit: `output a op1 b op2 c` writes the value of the grouping the
\* order (or the parentheses) gives, `1 + 2 * 3` is 7, `(1 + 2) * 3` is 9 and
\* the source `abc -[ output 1+2*3 ]- def` renders `abc 7 def`.
C14_PrecedenceGrouping ==
    (phase = "done" /\ scenario.entry \in {"compile", "render_string"}) =>
       /\ \A n \in DOMAIN PrecedenceCases :
             (/\ scenario.tokens = PrecedenceTemplates[n]
              /\ Tier(PrecedenceCases[n].op1) # Tier(PrecedenceCases[n].op2))
                => Rendered(PrecedenceCases[n])
       /\ scenario.tokens = tokenize(OutputSource) =>
             result.kind = "ok" /\ Concat(result.out) = "abc 7 def"

(***************************************************************************)
(* tokenize on one directive written with different spacing: the lexemes   *)
(* of the directive with 0..MaxGap spaces in each gap (before the first,   *)
(* between two, after the last), beside the same lexemes one space apart.  *)
(***************************************************************************)
MaxGap == 1

LexemeLists ==
    << <<"a", "-", "1">>, <<"x", "[", "0", "]", "-", "1">>, <<"1", "+", "2", "*", "3">>,
       <<"a", "=", "-", "1">>, <<"x", "[", "0", "]">> >>

RECURSIVE Spaces(_)
Spaces(n) == IF n = 0 THEN <<>> ELSE <<" ">> \o Spaces(n - 1)

\* The source `-[`, the lexemes with gaps[i] spaces before the i-th and
\* gaps[n + 1] after the last, `]-`.
RECURSIVE Spaced(_, _, _)
Spaced(lexemes, gaps, i) ==
    IF i > Len(lexemes) THEN Spaces(gaps[i])
    ELSE Spaces(gaps[i]) \o <<lexemes[i]>> \o Spaced(lexemes, gaps, i + 1)
DirectiveSource(lexemes, gaps) == <<"-", "[">> \o Spaced(lexemes, gaps, 1) \o <<"]", "-">>

SpacingInit ==
    /\ \E l \in DOMAIN LexemeLists :
          \E gaps \in [1..(Len(LexemeLists[l]) + 1) -> 0..MaxGap] :
             scenario = [entry |-> "tokenize", lexemes |-> LexemeLists[l], gaps |-> gaps]
    /\ manager = Manager(<<>>, DefaultMaxRecursionDepth, TRUE)
    /\ phase = "start"
    /\ stack = <<>>
    /\ result = NoResult

TokenizeSpaced ==
    /\ phase = "start"
    /\ scenario.entry = "tokenize"
    /\ phase' = "done"
    /\ result' = [result EXCEPT
                    !.kind = "ok",
                    !.out = << tokenize(DirectiveSource(scenario.lexemes, scenario.gaps)),
                               tokenize(DirectiveSource(scenario.lexemes,
                                          [i \in DOMAIN scenario.gaps |-> 1])) >>]
    /\ UNCHANGED <<scenario, manager, stack>>

SpacingSpec == SpacingInit /\ [][TokenizeSpaced]_vars

\* C16: whitespace between two lexemes of a directive does not change the
\* tokens: a directive tokenizes as the same lexemes one space apart do
\* (`a-1` and `a -1` as `a - 1`, `x[0]-1` as `x[0] - 1`).
C16_WhitespaceInsignificant ==
    (phase = "done" /\ scenario.entry = "tokenize") => result.out[1] = result.out[2]

(***************************************************************************)
(* tokenize step by step.  The one frame of stack is the lexer with the    *)
(* mode of the main loop ("html", or "directive" while lex_directive       *)
(* runs, "closing" once its loop has ended), the tokens returned so far    *)
(* and the tokens of the directive being lexed.  spans is a history field: *)
(* the part of the input each pass of the main loop consumed, with the     *)
(* tokens it contributed.                                                  *)
(***************************************************************************)
MaxPieces == 4

Pieces ==
    << <<"-", "[">>, <<"]", "-">>, <<" ">>, <<"a">>, <<"1">>, <<"-">>, <<"\"">>, <<"]">> >>

RECURSIVE Flatten(_)
Flatten(qs) == IF qs = <<>> THEN <<>> ELSE Head(qs) \o Flatten(Tail(qs))

LexFrame(lx, mode, tokens, directive, from, spans) ==
    [lx |-> lx, mode |-> mode, tokens |-> tokens, directive |-> directive, from |-> from,
     spans |-> spans]
Span(kind, from, to, first, last) ==
    [kind |-> kind, from |-> from, to |-> to, first |-> first, last |-> last]

LexInit ==
    /\ \E n \in 0..MaxPieces :
          \E ps \in [1..n -> DOMAIN Pieces] :
             scenario = [entry |-> "lex", input |-> Flatten([i \in 1..n |-> Pieces[ps[i]]])]
    /\ manager = Manager(<<>>, DefaultMaxRecursionDepth, TRUE)
    /\ phase = "run"
    /\ stack = <<LexFrame(Lexer(scenario.input, 0), "html", <<>>, <<>>, 0, <<>>)>>
    /\ result = NoResult

Lexing == phase = "run" /\ scenario.entry = "lex"
LexStep(f) ==
    /\ stack' = <<f>>
    /\ UNCHANGED <<scenario, manager, phase, result>>

\* HTML mode of the main loop of tokenize
LexHtml ==
    /\ Lexing /\ stack[1].mode = "html"
    /\ ~AtEnd(stack[1].lx) /\ ~peek_str(stack[1].lx, <<"-", "[">>)
    /\ LET html(f, h) ==
             LexStep([f EXCEPT !.lx = h.lx, !.tokens = h.tokens,
                               !.spans = Append(@, Span("html", f.lx.pos, h.lx.pos,
                                                        Len(f.tokens) + 1, Len(h.tokens)))])
       IN html(stack[1], html_pass(stack[1].lx, stack[1].tokens))

\* `lexer.pos += 2` and the entry of lex_directive
LexOpen ==
    /\ Lexing /\ stack[1].mode = "html"
    /\ peek_str(stack[1].lx, <<"-", "[">>)
    /\ LexStep([stack[1] EXCEPT !.lx = skip_whitespace(Advance(@, 2)), !.mode = "directive",
                                !.directive = <<>>, !.from = stack[1].lx.pos])

\* One pass of the loop of lex_directive
LexToken ==
    /\ Lexing /\ stack[1].mode = "directive"
    /\ directive_more(stack[1].lx)
    /\ LET pass(p) ==
             LexStep([stack[1] EXCEPT !.lx = p.lx, !.directive = p.tokens,
                                      !.mode = IF p.broke THEN "closing" ELSE "directive"])
       IN pass(directive_pass(stack[1].lx, stack[1].directive))

\* The end of lex_directive and `tokens.extend(directive_tokens)`
LexClose ==
    /\ Lexing
    /\ \/ stack[1].mode = "closing"
       \/ stack[1].mode = "directive" /\ ~directive_more(stack[1].lx)
    /\ LET close(f, d) ==
             LexStep([f EXCEPT !.lx = d.lx, !.mode = "html", !.directive = <<>>,
                               !.tokens = @ \o d.tokens,
                               !.spans = Append(@, Span("directive", f.from, d.lx.pos,
                                                        Len(f.tokens) + 1,
                                                        Len(f.tokens) + Len(d.tokens)))])
       IN close(stack[1], directive_close(stack[1].lx, stack[1].directive))

\* The main loop ends at the end of the input: tokenize returns.
LexFinish ==
    /\ Lexing /\ stack[1].mode = "html"
    /\ AtEnd(stack[1].lx)
    /\ phase' = "done"
    /\ result' = [result EXCEPT !.kind = "ok", !.out = stack[1].tokens]
    /\ UNCHANGED <<scenario, manager, stack>>

LexNext == LexHtml \/ LexOpen \/ LexToken \/ LexClose \/ LexFinish

LexSpec == LexInit /\ [][LexNext]_vars

Spans == stack[1].spans
InputPart(s) == SubSeq(scenario.input, s.from + 1, s.to)

\* The spans tile the input consumed so far, in order.
SpansInOrder ==
    /\ \A i \in DOMAIN Spans :
          /\ Spans[i].from = (IF i = 1 THEN 0 ELSE Spans[i - 1].to)
          /\ Spans[i].first = (IF i = 1 THEN 1 ELSE Spans[i - 1].last + 1)
          /\ Spans[i].from < Spans[i].to
    /\ stack[1].mode = "html" =>
          /\ stack[1].lx.pos = (IF Spans = <<>> THEN 0 ELSE Spans[Len(Spans)].to)
          /\ Len(stack[1].tokens) = (IF Spans = <<>> THEN 0 ELSE Spans[Len(Spans)].last)

\* A directive is what `-[` opens, up to the `]-` that ends it or to the
\* end of the input; its tokens end with EndOfStatement and none is HTML.
DirectiveRun(s) ==
    /\ SubSeq(InputPart(s), 1, 2) = <<"-", "[">>
    /\ \/ s.to = Len(scenario.input)
       \/ s.to - s.from >= 4 /\ SubSeq(scenario.input, s.to - 1, s.to) = <<"]", "-">>
    /\ s.last >= s.first
    /\ stack[1].tokens[s.last] = EndOfStatement
    /\ \A j \in s.first..s.last : stack[1].tokens[j].k # "HtmlContent"

\* Text outside directives: a non-empty stretch with no `-[` in it, emitted
\* as the one HtmlContent token of its pass.
HtmlRun(s) ==
    /\ \A j \in 1..(Len(InputPart(s)) - 1) : SubSeq(InputPart(s), j, j + 1) # <<"-", "[">>
    /\ s.last = s.first
    /\ stack[1].tokens[s.first] = HtmlContent(Concat(InputPart(s)))
    /\ stack[1].tokens[s.first].text # ""

TokenizeOutcome ==
    /\ SpansInOrder
    /\ \A i \in DOMAIN Spans :
          IF Spans[i].kind = "directive" THEN DirectiveRun(Spans[i]) ELSE HtmlRun(Spans[i])
    /\ phase = "done" =>
          /\ stack[1].lx.pos = Len(scenario.input)
          /\ result.out = stack[1].tokens
          /\ result.out = tokenize(scenario.input)

\* The guards of the lexer's steps: in each mode one of them holds.
HasStep ==
    \/ stack[1].mode = "html" /\ AtEnd(stack[1].lx)
    \/ stack[1].mode = "html" /\ peek_str(stack[1].lx, <<"-", "[">>)
    \/ stack[1].mode = "html" /\ ~AtEnd(stack[1].lx) /\ ~peek_str(stack[1].lx, <<"-", "[">>)
    \/ stack[1].mode = "directive" /\ directive_more(stack[1].lx)
    \/ stack[1].mode = "directive" /\ ~directive_more(stack[1].lx)
    \/ stack[1].mode = "closing"

\* What is left to do: the input not consumed, then the end of the directive
\* being lexed, then the return.
Remaining ==
    IF phase = "done" THEN 0
    ELSE 1 + 3 * (Len(scenario.input) - stack[1].lx.pos)
           + (CASE stack[1].mode = "directive" -> 2 [] stack[1].mode = "closing" -> 1
                [] OTHER -> 0)

\* C17: tokenize is total and terminates on every input; every directive
\* opened by `-[`, closed by `]-` or left open at the end of the input, empty
\* or not, contributes tokens that end with EndOfStatement; the text outside
\* directives is emitted as non-empty HtmlContent tokens in source order.
\* Until tokenize returns it has a step to take, and every step consumes
\* input or ends a directive or the call.
C17_TokenizeTotal ==
    /\ [](TokenizeOutcome /\ (phase # "done" => HasStep))
    /\ [][Remaining' < Remaining]_vars

\* An empty closed directive, text, and a directive left open at the end.
C17_OpenAndClosedDirectives ==
    /\ phase = "done" /\ scenario.entry = "lex"
    /\ Len(Spans) = 3
    /\ Spans[1].kind = "directive" /\ Spans[1].last = Spans[1].first
    /\ Spans[2].kind = "html"
    /\ Spans[3].kind = "directive"
    /\ SubSeq(scenario.input, Len(scenario.input) - 1, Len(scenario.input)) # <<"]", "-">>

(***************************************************************************)
(* Value::into_json and Value::from_json (object/value.rs, object/parse.rs)*)
(* on sequences of characters.  A Str and a Dictionary key are strings as  *)
(* everywhere in the model; JsonStrings lists their characters.  A HashMap *)
(* is iterated in an order of its own: ascending or descending in          *)
(* JsonStrings here, by the choice `reversed`.                             *)
(***************************************************************************)
JsonStrings ==
    << <<>>, <<"a">>, <<"k">>, <<"\"">>, <<"\\">>, <<"a", "\"", "b">>, <<"\\", "n">>,
       <<"\\", "a">>, <<"\n">>, <<"a", "\"">> >>
JsonIndex(s) == CHOOSE i \in 1..Len(JsonStrings) : Concat(JsonStrings[i]) = s
JsonChars(s) == JsonStrings[JsonIndex(s)]

RECURSIVE NatChars(_)
NatChars(n) == IF n < 10 THEN <<Digit(n)>> ELSE NatChars(n \div 10) \o <<Digit(n % 10)>>
\* f64::to_string of an integral value
NumChars(n) == IF n < 0 THEN <<"-">> \o NatChars(0 - n) ELSE NatChars(n)

\* `if result.len() >= 2 { result.truncate(result.len() - 2); }`
Truncated(r) == IF Len(r) >= 2 THEN SubSeq(r, 1, Len(r) - 2) ELSE r

RECURSIVE OrderedKeys(_, _, _)
OrderedKeys(keys, i, reversed) ==
    IF i > Len(JsonStrings) THEN <<>>
    ELSE LET key == Concat(JsonStrings[IF reversed THEN Len(JsonStrings) + 1 - i ELSE i])
         IN (IF key \in keys THEN <<key>> ELSE <<>>) \o OrderedKeys(keys, i + 1, reversed)

RECURSIVE into_json(_, _)
RECURSIVE list_json(_, _, _)
RECURSIVE dictionary_json(_, _, _, _)
list_json(l, i, reversed) ==
    IF i > Len(l) THEN <<>>
    ELSE into_json(l[i], reversed) \o <<",", " ">> \o list_json(l, i + 1, reversed)
dictionary_json(d, keys, i, reversed) ==
    IF i > Len(keys) THEN <<>>
    ELSE <<"\"">> \o JsonChars(keys[i]) \o <<"\"", ":", " ">> \o into_json(d[keys[i]], reversed)
           \o <<",", " ">> \o dictionary_json(d, keys, i + 1, reversed)
into_json(v, reversed) ==
    CASE v.t = "None" -> <<"n", "o", "n", "e">>
      [] v.t = "Numerical" -> NumChars(v.n)
      [] v.t = "Boolean" -> IF v.b THEN <<"t", "r", "u", "e">> ELSE <<"f", "a", "l", "s", "e">>
      [] v.t = "Str" -> <<"\"">> \o JsonChars(v.s) \o <<"\"">>
      [] v.t = "List" -> <<"[">> \o Truncated(list_json(v.l, 1, reversed)) \o <<"]">>
      [] OTHER ->
           <<"{">> \o Truncated(dictionary_json(v.d, OrderedKeys(DOMAIN v.d, 1, reversed), 1,
                                                reversed)) \o <<"}">>

\* A parser result: the value (or string) parsed and the position reached,
\* or the error.
Parsed(v, pos) == [ok |-> TRUE, v |-> v, pos |-> pos, err |-> ""]
ParseError(text, pos) == [ok |-> FALSE, v |-> ObjNone, pos |-> pos, err |-> text]
JsonPeek(q, pos) == IF pos < Len(q) THEN q[pos + 1] ELSE "<end>"

RECURSIVE json_skip_whitespace(_, _)
json_skip_whitespace(q, pos) ==
    IF is_whitespace(JsonPeek(q, pos)) THEN json_skip_whitespace(q, pos + 1) ELSE pos

JsonEscapes ==
    << <<"\"", "\"">>, <<"\\", "\\">>, <<"/", "/">>, <<"b", "<U+0008>">>, <<"f", "\f">>,
       <<"n", "\n">>, <<"r", "\r">>, <<"t", "\t">> >>

\* The `while let Some(ch) = self.next()` loop of parse_string.
RECURSIVE json_string_loop(_, _, _)
json_string_loop(q, pos, s) ==
    LET ch == JsonPeek(q, pos)
        esc == JsonPeek(q, pos + 1)
    IN
    IF pos >= Len(q) THEN ParseError("Unterminated string literal", pos)
    ELSE IF ch = "\"" THEN Parsed(s, pos + 1)
    ELSE IF ch = "\\"
    THEN IF pos + 1 >= Len(q) THEN ParseError("Incomplete escape sequence", pos + 1)
         ELSE IF \E i \in 1..Len(JsonEscapes) : JsonEscapes[i][1] = esc
         THEN json_string_loop(q, pos + 2,
                s \o JsonEscapes[CHOOSE i \in 1..Len(JsonEscapes) : JsonEscapes[i][1] = esc][2])
         ELSE ParseError("Invalid escape sequence: \\" \o esc, pos + 2)
    ELSE json_string_loop(q, pos + 1, s \o ch)

parse_string(q, pos) ==
    IF JsonPeek(q, pos) # "\"" THEN ParseError("Expected '\"' at beginning of string", pos + 1)
    ELSE json_string_loop(q, pos + 1, "")

RECURSIVE json_number_end(_, _)
json_number_end(q, pos) ==
    IF is_digit(JsonPeek(q, pos)) \/ JsonPeek(q, pos) \in {".", "-", "e", "E", "+"}
    THEN json_number_end(q, pos + 1) ELSE pos

\* number_str.parse::<f64>() of the characters parse_number collected: an
\* optional sign, digits, an optional point and digits (no input explored
\* holds an exponent).
IsDecimal(q) ==
    LET body == IF q # <<>> /\ q[1] = "-" THEN Tail(q) ELSE q IN
    /\ body # <<>>
    /\ \A i \in 1..Len(body) : is_digit(body[i]) \/ body[i] = "."
    /\ Cardinality({i \in 1..Len(body) : body[i] = "."}) <= 1
    /\ \E i \in 1..Len(body) : is_digit(body[i])

parse_number(q, pos) ==
    LET number(end) ==
          IF IsDecimal(SubSeq(q, pos + 1, end)) THEN Parsed(ParseF64(SubSeq(q, pos + 1, end)), end)
          ELSE ParseError("Invalid number", end)
    IN number(json_number_end(q, pos))

parse_boolean(q, pos) ==
    IF SubSeq(q, pos + 1, pos + 4) = <<"t", "r", "u", "e">> /\ pos + 4 <= Len(q)
    THEN Parsed(ObjBoolean(TRUE), pos + 4)
    ELSE IF SubSeq(q, pos + 1, pos + 5) = <<"f", "a", "l", "s", "e">> /\ pos + 5 <= Len(q)
    THEN Parsed(ObjBoolean(FALSE), pos + 5)
    ELSE ParseError("Invalid boolean value", pos)

RECURSIVE parse_value(_, _)
RECURSIVE array_loop(_, _, _)
RECURSIVE object_loop(_, _, _)

\* The `loop` of parse_array.
array_loop(q, pos, vec) ==
    LET item(r) ==
          IF ~r.ok THEN r
          ELSE LET after(p) ==
                     CASE JsonPeek(q, p) = "," -> array_loop(q, p + 1, Append(vec, r.v))
                       [] JsonPeek(q, p) = "]" -> Parsed(ObjList(Append(vec, r.v)), p + 1)
                       [] OTHER -> ParseError("Expected ',' or ']'", p)
               IN after(json_skip_whitespace(q, r.pos))
    IN item(parse_value(q, json_skip_whitespace(q, pos)))

parse_array(q, pos) ==
    LET first(p) == IF JsonPeek(q, p) = "]" THEN Parsed(ObjList(<<>>), p + 1)
                    ELSE array_loop(q, p, <<>>)
    IN first(json_skip_whitespace(q, pos + 1))

\* The `loop` of parse_object.
object_loop(q, pos, map) ==
    LET entry(key, r) ==
          IF ~r.ok THEN r
          ELSE LET after(p) ==
                     CASE JsonPeek(q, p) = "," -> object_loop(q, p + 1, StrInsert(map, key, r.v))
                       [] JsonPeek(q, p) = "}" ->
                            Parsed(ObjDictionary(StrInsert(map, key, r.v)), p + 1)
                       [] OTHER -> ParseError("Expected ',' or '}'", p)
               IN after(json_skip_whitespace(q, r.pos))
        keyed(k) ==
          IF ~k.ok THEN k
          ELSE LET colon(p) ==
                     IF JsonPeek(q, p) # ":"
                     THEN ParseError("Expected ':' after key", IF p < Len(q) THEN p + 1 ELSE p)
                     ELSE entry(k.v, parse_value(q, json_skip_whitespace(q, p + 1)))
               IN colon(json_skip_whitespace(q, k.pos))
        start(p) ==
          IF JsonPeek(q, p) # "\"" THEN ParseError("Expected '\"' for object key", p)
          ELSE keyed(parse_string(q, p))
    IN start(json_skip_whitespace(q, pos))

parse_object(q, pos) ==
    LET first(p) == IF JsonPeek(q, p) = "}" THEN Parsed(ObjDictionary(EmptyMap), p + 1)
                    ELSE object_loop(q, p, EmptyMap)
    IN first(json_skip_whitespace(q, pos + 1))

parse_value(q, pos0) ==
    LET value(pos) ==
          LET string(r) == IF r.ok THEN Parsed(ObjStr(r.v), r.pos) ELSE r IN
          CASE JsonPeek(q, pos) = "{" -> parse_object(q, pos)
            [] JsonPeek(q, pos) = "[" -> parse_array(q, pos)
            [] JsonPeek(q, pos) = "\"" -> string(parse_string(q, pos))
            [] JsonPeek(q, pos) \in {"t", "f"} -> parse_boolean(q, pos)
            [] is_digit(JsonPeek(q, pos)) \/ JsonPeek(q, pos) = "-" -> parse_number(q, pos)
            [] OTHER -> ParseError("Unexpected character", pos)
    IN value(json_skip_whitespace(q, pos0))

from_json(json) ==
    LET whole(r) ==
          IF ~r.ok THEN r
          ELSE IF json_skip_whitespace(json, r.pos) # Len(json)
          THEN ParseError("Extra characters after JSON value", json_skip_whitespace(json, r.pos))
          ELSE r
    IN whole(parse_value(json, 0))

\* The values explored: scalars, lists of up to two scalars, lists of one
\* list, dictionaries of up to two keys with scalar or list values.
JsonScalars ==
    {ObjNumerical(n) : n \in {0 - 1, 0, 12}} \cup {ObjBoolean(b) : b \in BOOLEAN}
      \cup {ObjStr(Concat(JsonStrings[i])) : i \in 1..Len(JsonStrings)}
JsonLists ==
    {ObjList(<<>>)} \cup {ObjList(<<a>>) : a \in JsonScalars}
      \cup {ObjList(<<a, b>>) : a \in JsonScalars, b \in {ObjNumerical(0), ObjStr("a"), ObjStr("\"")}}
JsonKeys == {"", "k", "\"", "\\"}
JsonDictionaries ==
    {ObjDictionary(EmptyMap)}
      \cup {ObjDictionary(StrInsert(EmptyMap, k, a)) : k \in JsonKeys, a \in JsonScalars \cup JsonLists}
      \cup {ObjDictionary(StrInsert(StrInsert(EmptyMap, "k", a), k, b)) :
              k \in JsonKeys \ {"k"}, a \in JsonScalars, b \in {ObjNumerical(0), ObjList(<<>>)}}
JsonValues ==
    JsonScalars \cup JsonLists \cup {ObjList(<<l>>) : l \in JsonLists} \cup JsonDictionaries

JsonInit ==
    /\ \E v \in JsonValues, reversed \in BOOLEAN :
          scenario = [entry |-> "json", value |-> v, reversed |-> reversed]
    /\ manager = Manager(<<>>, DefaultMaxRecursionDepth, TRUE)
    /\ phase = "start"
    /\ stack = <<>>
    /\ result = NoResult

\* v.into_json()
IntoJson ==
    /\ phase = "start" /\ scenario.entry = "json"
    /\ phase' = "json"
    /\ result' = [result EXCEPT !.out = <<into_json(scenario.value, scenario.reversed)>>]
    /\ UNCHANGED <<scenario, manager, stack>>

\* Value::from_json(&json)
FromJson ==
    /\ phase = "json"
    /\ LET parsed(r) ==
             result' = [result EXCEPT !.kind = IF r.ok THEN "ok" ELSE "err",
                                      !.err = r.err,
                                      !.out = IF r.ok THEN Append(@, r.v) ELSE @]
       IN parsed(from_json(result.out[1]))
    /\ phase' = "done"
    /\ UNCHANGED <<scenario, manager, stack>>

JsonSpec == JsonInit /\ [][IntoJson \/ FromJson]_vars

\* C15: for every Value without None inside a container, integers for
\* numbers and every string for a Str or a Dictionary key, strings with `"`
\* or `\` included: from_json(v.into_json()) is Ok(v).
C15_JsonRoundTrip ==
    (phase = "done" /\ scenario.entry = "json") =>
       result.kind = "ok" /\ result.out[2] = scenario.value

ExportTemplate == D(<<Kw("ExportKeyword")>>) \o Html("z")
MaxDepthReached(out) == MaxDepthDiagnostic \in Chunks(out)

\* C18: `export` affects the file that holds it only: a template with a
\* top-level `export` rendered directly is Ok with the empty string, and a
\* template that inserts a file with `export` still renders its own content.
C18_ExportStaysInItsFile ==
    phase = "done" =>
       /\ (\/ scenario.entry \in {"compile", "render_string"} /\ scenario.tokens = ExportTemplate
           \/ scenario.entry = "render" /\ scenario.name = "t/L")
             => result.kind = "ok" /\ result.out = <<>>
       /\ (scenario.entry = "render" /\ scenario.name = "t/P")
             => result.kind = "ok" /\ "P" \in Chunks(result.out) /\ "Q" \in Chunks(result.out)

\* C19: the guard bounds the nesting depth, not the number of expansions: a
\* template with sibling inserts, each of nesting depth 1, is expanded in
\* full for every max_recursion_depth >= 1.
C19_SiblingInsertsExpanded ==
    (/\ phase = "done"
     /\ scenario.entry = "render" /\ scenario.name = "t/S"
     /\ manager.max_recursion_depth >= 1)
       => /\ result.kind = "ok"
          /\ ~MaxDepthReached(result.out)
          /\ result.out = <<"e", "|", "e", "|", "e", ".">>

\* The parent's tokens with every block span, nested ones included, given
\* the child's body when the child has a block of that name and its own
\* body, treated the same way, otherwise.
RECURSIVE Inherited(_, _, _)
Inherited(tokens, child, i) ==
    IF i >= Len(tokens) THEN <<>>
    ELSE IF IsKw(tokens, i, "BlockKeyword") /\ IsKw(tokens, i + 1, "Identifier")
    THEN LET name == TokAt(tokens, i + 1).name
             start == SkipEos(tokens, i + 2)
             end == FindEndBlock(tokens, start, 1).pos
         IN Slice(tokens, i, start)
              \o (IF name \in DOMAIN child THEN child[name]
                  ELSE Inherited(Slice(tokens, start, end), child, 0))
              \o <<TokAt(tokens, end)>> \o Inherited(tokens, child, end + 1)
    ELSE <<TokAt(tokens, i)>> \o Inherited(tokens, child, i + 1)

ExtendsNestedLayout ==
    /\ scenario.entry = "render" /\ scenario.name \in {"t/K", "t/O", "t/J"}
    /\ manager.max_recursion_depth >= 1

\* C20: the sequence extend_with_parent returns for a child with a parent is
\* the parent's with every block span, a block nested in another block
\* included, carrying the child's body when the child defines a block of
\* that name and the parent's own otherwise; blocks the child alone defines
\* and child tokens outside blocks do not appear.
C20_BlocksMergedIntoParent ==
    (phase = "compile" /\ ExtendsNestedLayout) =>
       stack[1].c.tokens =
          Inherited(NestedLayout,
                    extract_blocks(read_template_token(manager, scenario.name).tokens).blocks, 0)

\* The container with exactly the element or entry named by the target
\* replaced by v.
WrittenThrough(container, target, v) ==
    IF container.t = "List"
    THEN ObjList([container.l EXCEPT ![target.at.n + 1] = v])
    ELSE ObjDictionary(StrInsert(container.d, target.at.s, v))

AssignCaseOf(tokens) == {n \in DOMAIN AssignCases : AssignTemplates[n] = tokens}

\* C21: `name[idx] = expr` on a List with idx in bounds, `name[key] = expr`
\* and `name.prop = expr` on a Dictionary, wherever the statement stands,
\* replace exactly that element or entry: the render returns Ok, `name` is
\* the same container with that one element replaced, and no other binding
\* changes.
C21_AssignmentWritesThrough ==
    (phase = "done" /\ AssignCaseOf(scenario.tokens) # {}) =>
       \A n \in AssignCaseOf(scenario.tokens) :
          LET e == AssignCases[n] IN
          /\ result.kind = "ok"
          /\ stack # <<>>
          /\ stack[1].c.data
               = StrInsert(scenario.data, e.target.name,
                           WrittenThrough(scenario.data[e.target.name], e.target, e.v))

\* What a loop with k truthy conditions renders for each template of
\* ConditionTemplates: k times the body's text, then the text after it.
ConditionOutputs == << <<"a", "a", "z">>, <<"a", "a", "z">>, <<"a", "z">> >>

\* C22: the tokens a while loop runs as its body are exactly those between
\* the end-of-statement that closes its condition and the matching endwhile,
\* whatever the number of tokens of the condition (the closing end-of-statement
\* itself may be run with the body: it does nothing); the condition's tokens
\* write nothing, so a loop whose condition is truthy k times renders k
\* times what its body renders.
C22_WhileBodyAfterCondition ==
    /\ \A i \in Frames :
          LET f == stack[i] IN
          f.h.kind = "while" =>
             LET closing == ExpressionEnd(f.c.tokens, f.h.condition_pos) IN
             \/ f.h.loop_body = Slice(f.c.tokens, closing + 1, f.h.end_pos - 1)
             \/ f.h.loop_body = Slice(f.c.tokens, closing, f.h.end_pos - 1)
    /\ \A k \in DOMAIN ConditionTemplates :
          (phase = "done" /\ scenario.tokens = ConditionTemplates[k]) =>
             (result.kind = "ok" /\ result.out = ConditionOutputs[k])

ListLoopCaseOf(tokens) == {n \in DOMAIN ListLoopCases : ListLoopTemplates[n] = tokens}

\* C23: `for name in collection` over a List runs its body once per element
\* of the list the collection expression had before the first iteration,
\* in index order, with `name` bound to the element, whatever the body does
\* to the collection variable (reassign, `del xs[i]`, delete); the loop
\* renders the iterations' outputs in that order.
C23_ForOverEvaluatedList ==
    \A n \in ListLoopCaseOf(scenario.tokens) :
       LET e == ListLoopCases[n]
           items == scenario.data[e.coll].l
       IN
       /\ (Len(stack) >= 1 /\ stack[1].h.kind = "for") =>
             LET h == stack[1].h
                 turn == Len(items) - Len(h.items)
             IN
             /\ turn \in 1..Len(items)
             /\ h.items = SubSeq(items, turn + 1, Len(items))
             /\ Len(stack) >= 2
             /\ stack[2].c.tokens = ListLoopBody(e)
             /\ stack[2].entry["it"] = items[turn]
             /\ stack[1].c.output = [j \in 1..(turn - 1) |-> interal_value_as_string(items[j])]
       /\ phase = "done" =>
             /\ result.kind = "ok"
             /\ result.out = [j \in 1..Len(items) |-> interal_value_as_string(items[j])]
                               \o e.tailOut

\* The loop over xs has rendered both elements although its body removed
\* an element of xs in each iteration.
C23_ShortenedWhileLooping ==
    /\ phase = "done"
    /\ scenario.tokens = ListLoopTemplates[2]
    /\ result.out = <<"1", "2", "0">>
    /\ stack[1].c.data["xs"] = ObjList(<<>>)

\* The position of the endif that closes the `if` whose guarded span is
\* entered at p, open nested `if`s being open; Len(tokens) when there is none.
RECURSIVE MatchingEndIf(_, _, _)
MatchingEndIf(tokens, p, open) ==
    IF p >= Len(tokens) THEN Len(tokens)
    ELSE IF IsKw(tokens, p, "EndIfKeyword")
    THEN IF open = 0 THEN p ELSE MatchingEndIf(tokens, p + 1, open - 1)
    ELSE MatchingEndIf(tokens, p + 1, IF IsKw(tokens, p, "IfKeyword") THEN open + 1 ELSE open)

IfCaseOf(tokens) == {n \in DOMAIN IfCases : IfTemplates[n] = tokens}

\* What `if c1` A `if c2` B `endif` `let i = 5` C `endif` `output i` D renders.
IfOutput(e) ==
    (IF e.outer.holds
     THEN <<"A">> \o (IF e.inner.holds THEN <<"B">> ELSE <<>>) \o <<"C", "5">>
     ELSE <<"0">>) \o <<"D">>

\* C24: an `if` whose condition is falsy leaves the compiler at the token
\* right after the endif that matches it by depth counting over nested
\* if/endif pairs, with nothing written to the output; an `if` whose
\* condition is truthy leaves it at the guarded span, which is then run once,
\* nested `if`s decided by their own conditions: no token of a skipped span
\* writes output or changes a binding.
C24_IfGuardsItsSpan ==
    /\ \A j \in Frames :
          LET f == stack[j]
              span == ExpressionEnd(f.c.tokens, f.ev.at + 1) + 1
              endif == MatchingEndIf(f.c.tokens, span, 0)
              decided(e) ==
                 (e.ok /\ endif < Len(f.c.tokens)) =>
                    IF is_truthy(e.v)
                    THEN f.c.pos > f.ev.at /\ f.c.pos <= span
                    ELSE f.c.pos = endif + 1 /\ Len(f.c.output) = f.ev.out0
          IN f.ev.kind = "IfKeyword" =>
                decided(evaluate_expression(SetPos(f.c, f.ev.at + 1)))
    /\ \A n \in IfCaseOf(scenario.tokens) :
          phase = "done" => (result.kind = "ok" /\ result.out = IfOutput(IfCases[n]))

\* A falsy `if` with a truthy `if` nested in its span has been skipped whole.
C24_NestedSpanSkipped ==
    /\ phase = "done"
    /\ \E n \in IfCaseOf(scenario.tokens) :
          ~IfCases[n].outer.holds /\ IfCases[n].inner.holds
    /\ result.out = <<"0", "D">>

(***************************************************************************)
(* The relational operators on their own: `l op r` evaluated for every two *)
(* operands of CompareOperands and every operator.                         *)
(***************************************************************************)
RelationalOperators == {"LessThan", "LessThanEquals", "GreaterThan", "GreaterThanEquals"}
CompareOperands ==
    {ObjStr(StrOrder[i]) : i \in DOMAIN StrOrder}
      \cup {ObjNumerical(n) : n \in (0 - 1)..2}
      \cup {ObjBoolean(TRUE), ObjList(<<>>), ObjList(<<ObjNumerical(1)>>)}

CompareInit ==
    /\ \E l \in CompareOperands, r \in CompareOperands, op \in RelationalOperators :
          scenario = [entry |-> "compare", l |-> l, op |-> op, r |-> r]
    /\ manager = Manager(<<>>, DefaultMaxRecursionDepth, TRUE)
    /\ phase = "start"
    /\ stack = <<>>
    /\ result = NoResult

\* evaluate_expression over the tokens `l op r`.
Compare ==
    /\ phase = "start" /\ scenario.entry = "compare"
    /\ LET compared(e) ==
             result' = [result EXCEPT !.kind = IF e.ok THEN "ok" ELSE "err",
                                      !.err = e.err,
                                      !.out = IF e.ok THEN <<e.v>> ELSE <<>>]
       IN compared(evaluate_expression(
             NewCompiler(<<Object(scenario.l), Kw(scenario.op), Object(scenario.r)>>, EmptyMap)))
    /\ phase' = "done"
    /\ UNCHANGED <<scenario, manager, stack>>

CompareSpec == CompareInit /\ [][Compare]_vars

\* C25: on two strings `<`, `<=`, `>`, `>=` give the Boolean of the
\* lexicographic comparison (`s <= s` and `s >= s` are true); on two numbers
\* that of the numeric comparison; every other pair of operands is an error.
C25_StringsCompareLexicographically ==
    (phase = "done" /\ scenario.entry = "compare") =>
       LET l == scenario.l
           r == scenario.r
       IN
       CASE l.t = "Str" /\ r.t = "Str" ->
              /\ result.kind = "ok"
              /\ result.out = <<ObjBoolean(NumCompare(scenario.op, StrRank(l.s), StrRank(r.s)))>>
         [] l.t = "Numerical" /\ r.t = "Numerical" ->
              /\ result.kind = "ok"
              /\ result.out = <<ObjBoolean(NumCompare(scenario.op, l.n, r.n))>>
         [] OTHER -> result.kind = "err"

\* The value reached from v by the accesses of chain, applied left to right.
RECURSIVE Reached(_, _)
Reached(v, chain) ==
    IF chain = <<>> THEN v
    ELSE LET access == Head(chain) IN
         Reached(CASE access.kind = "prop" /\ access.at.s = "len" ->
                        ObjNumerical(IF v.t = "List" THEN Len(v.l) ELSE Cardinality(DOMAIN v.d))
                   [] v.t = "List" -> v.l[access.at.n + 1]
                   [] OTHER -> v.d[access.at.s],
                 Tail(chain))

ChainCaseOf(tokens) == {n \in DOMAIN ChainCases : ChainTemplates[n] = tokens}

\* C26: in an expression an identifier followed by a chain of `[index]` and
\* `.property` accesses, of any length and in any mix, evaluates to the value
\* reached by applying the accesses left to right to the bound value; `d.k`
\* is `d["k"]` on a Dictionary.
C26_ChainedAccess ==
    \A n \in ChainCaseOf(scenario.tokens) :
       phase = "done" =>
          /\ result.kind = "ok"
          /\ result.out
               = <<interal_value_as_string(
                     Reached(scenario.data[ChainCases[n].name], ChainCases[n].chain)), "z">>

MissCaseOf(tokens) == {n \in DOMAIN MissCases : MissTemplates[n] = tokens}

\* C27: an out-of-bounds List index or a missing Dictionary key is handled
\* the same way as a bare statement and inside an `output` or `let`
\* expression: the render returns Ok, a diagnostic comment is in the output
\* and the rest of the template is rendered.
C27_OneErrorPolicy ==
    (phase = "done" /\ MissCaseOf(scenario.tokens) # {}) =>
       /\ result.kind = "ok"
       /\ Len(result.out) >= 2
       /\ result.out[1] \notin HtmlTexts(scenario.tokens)
       /\ result.out[Len(result.out)] = "z"

(***************************************************************************)
(* expand_template on its own, over token sequences without a `template`   *)
(* directive and without an `insert` marker: up to MaxParts parts, each a  *)
(* text, a directive or a terminated block.                                *)
(***************************************************************************)
MaxParts == 3
Parts ==
    << Html("a"),
       Block("b", Html("X")),
       Block("b", Html("Y")),
       Block("c", Block("b", Html("X"))),
       Block("c", <<>>),
       D(<<Kw("OutputKeyword"), Id("x")>>),
       D(<<Kw("PlaceholderKeyword"), Id("b")>>) >>

ExpandInit ==
    /\ \E n \in 0..MaxParts :
          \E ps \in [1..n -> DOMAIN Parts] :
             scenario = [entry |-> "expand", parts |-> ps,
                         tokens |-> Flatten([i \in 1..n |-> Parts[ps[i]]])]
    /\ manager = Manager(<<>>, DefaultMaxRecursionDepth, TRUE)
    /\ phase = "start"
    /\ stack = <<>>
    /\ result = NoResult

\* expand_template(tokens, "", &mut 0)
Expand ==
    /\ phase = "start" /\ scenario.entry = "expand"
    /\ LET expanded(e) ==
             result' = [result EXCEPT !.kind = "ok", !.out = e.tokens,
                                      !.expansions = e.x.recursion_count]
       IN expanded(expand_template(Fresh, scenario.tokens, ""))
    /\ phase' = "done"
    /\ UNCHANGED <<scenario, manager, stack>>

ExpandSpec == ExpandInit /\ [][Expand]_vars

\* C28: for a token sequence without a `template` directive and without an
\* `insert` marker whose blocks are all terminated, expand_template returns
\* the same sequence, the blocks in place with their own bodies - two blocks
\* of the same name included.
C28_ResolutionWithoutParentIsIdentity ==
    (phase = "done" /\ scenario.entry = "expand") => result.out = scenario.tokens

(***************************************************************************)
(* insert_template on its own: hosts of up to MaxParts parts, each a text, *)
(* a directive or an insert marker, resolved from t/S among LibraryFiles   *)
(* (E and L are leaves, P inserts L, A cannot be read).                    *)
(***************************************************************************)
HostParts ==
    << Html("a"),
       InsertOf("E", "|"),
       D(<<Kw("InsertKeyword"), Text("P")>>),
       D(<<Kw("InsertKeyword"), Text("A")>>),
       D(<<Kw("InsertKeyword"), Text("L")>>),
       D(<<Kw("OutputKeyword"), Id("x")>>) >>
HostDir == "t/S"

InsertInit ==
    /\ \E n \in 0..MaxParts :
          \E ps \in [1..n -> DOMAIN HostParts] :
             scenario = [entry |-> "insert", parts |-> ps,
                         tokens |-> Flatten([i \in 1..n |-> HostParts[ps[i]]])]
    /\ \E i \in DOMAIN DepthChoices, cache \in BOOLEAN :
          manager = Manager(LibraryFiles, DepthChoices[i], cache)
    /\ phase = "start"
    /\ stack = <<>>
    /\ result = NoResult

\* insert_template(tokens, "t/S", &mut 0)
InsertTemplate ==
    /\ phase = "start" /\ scenario.entry = "insert"
    /\ LET inserted(r) ==
             /\ result' = [result EXCEPT !.kind = "ok", !.out = r.tokens,
                                         !.expansions = r.x.recursion_count]
             /\ manager' = [manager EXCEPT !.template_cache = r.x.template_cache]
       IN inserted(insert_template(Fresh, scenario.tokens, HostDir))
    /\ phase' = "done"
    /\ UNCHANGED <<scenario, stack>>

InsertSpec == InsertInit /\ [][InsertTemplate]_vars

\* The host from position i on with, right after the end-of-statement of
\* each of its insert markers, what expand_template gives for the template
\* the marker names; only the host's own tokens are looked at.
RECURSIVE Spliced(_, _, _, _)
Spliced(x, host, self_dir, i) ==
    IF i >= Len(host) THEN <<>>
    ELSE IF /\ IsKw(host, i, "InsertKeyword")
            /\ IsKw(host, i + 1, "Object") /\ TokAt(host, i + 1).obj.t = "Str"
            /\ IsKw(host, i + 2, "EndOfStatement")
    THEN LET full_path == get_full_dir(TokAt(host, i + 1).obj.s, self_dir)
             rest(r) == Slice(host, i, i + 3) \o r.tokens \o Spliced(r.x, host, self_dir, i + 3)
             resolved(ld) ==
                IF ld.ok THEN rest(expand_template(ld.x, ld.tokens, full_path))
                ELSE rest([tokens |-> <<HtmlContent("<!-- Template Error: " \o full_path
                                                     \o " - " \o ld.err \o " -->")>>,
                           x |-> ld.x])
         IN resolved(load_tokens(x, full_path))
    ELSE <<TokAt(host, i)>> \o Spliced(x, host, self_dir, i + 1)

\* The number of insert markers among tokens.
Markers(tokens) == Cardinality({i \in DOMAIN tokens : tokens[i].k = "InsertKeyword"})

\* C29: insert_template puts the resolved tokens of the template each insert
\* marker names right after the marker's end-of-statement; every token of the
\* host is kept once and in order, the spliced tokens are not scanned again
\* for markers, and every later marker of the host is still processed.
C29_InsertKeepsHost ==
    (phase = "done" /\ scenario.entry = "insert") =>
       result.out = Spliced(Fresh, scenario.tokens, HostDir, 0)

\* A host with two markers, the first of which brought in a template that
\* holds a marker itself.
C29_NestedThenSibling ==
    /\ phase = "done" /\ scenario.entry = "insert"
    /\ scenario.parts = <<3, 2>>
    /\ manager.max_recursion_depth = MaxDepth
    /\ Markers(result.out) = 3
    /\ Len(result.out) = Len(scenario.tokens) + 9

BareAssignCaseOf(tokens) ==
    {n \in DOMAIN BareAssignCases : BareAssignTemplates[n] = tokens}

\* C30: the statement `name = expr` binds name to the value of expr and
\* writes nothing, whether or not name was bound before; the tokens of expr
\* are not run as statements: followed by `output name`, the render is Ok
\* with the value alone, and no other binding has changed.
C30_BareAssignmentBinds ==
    \A n \in BareAssignCaseOf(scenario.tokens) :
       LET e == BareAssignCases[n] IN
       /\ phase = "done" =>
             /\ result.kind = "ok"
             /\ result.out = <<interal_value_as_string(e.value)>>
             /\ stack[1].c.data = StrInsert(scenario.data, e.name, e.value)
       /\ (phase = "run" /\ stack[1].ev.kind = "Identifier") =>
             /\ stack[1].ev.at = 0
             /\ stack[1].c.output = <<>>

====
